---- MODULE Spec2Model ----
(***************************************************************************)
(* Real-time layer of NexusPlay (server/routes.ts): the WebSocket          *)
(* connection registry `connectedClients`, the heartbeat, the broadcast    *)
(* helpers and the WebRTC signaling relay, together with the storage       *)
(* operations and REST handlers that feed them.                            *)
(*                                                                         *)
(* Node runs every callback to completion; a handler is split into one     *)
(* action per run-to-completion segment, the cut being at each `await`.    *)
(* A segment that ends by issuing a storage call is merged with the        *)
(* execution of that call: the segment reads no shared state after it.     *)
(***************************************************************************)
EXTENDS Integers, Sequences, FiniteSets, TLC

\* ---------------------------------------------------------------- bounds
NumSockets == 3
MaxTicks == 6
MaxPending == 1
MaxRequests == 3

\* ------------------------------------------------------ program constants
HeartbeatInterval == 30000
StaleThreshold == 40000

\* clock granularity: a third of the heartbeat period
TimeStep == HeartbeatInterval \div 3

\* the last instant of the modelled clock
Horizon == (MaxTicks + 1) * TimeStep

\* ------------------------------------------------------------- universes
Sockets == 1..NumSockets
Users == {"u1", "u2", "u3"}
NoUser == "undefined"
\* the token Math.random().toString(36) yields for the n-th draw
Token(n) == <<"k", n>>
ClientIds == {Token(n) : n \in Sockets}
NoId == << >>
Missing == "missing"
Statuses == {"pending", "accepted", "declined"}
SignalingTypes == {"webrtc_offer", "webrtc_answer", "webrtc_ice_candidate"}

VARIABLES
  now,              \* Date.now()
  nextBeat,         \* time at which the setInterval callback is due
  connectedClients, \* Map clientId -> {ws, userId, lastPong}
  readyState,       \* ws.readyState of each socket ("IDLE": not yet connected)
  connPc,           \* position of the wss.on('connection') handler of a socket
  clientId,         \* the handler's clientId constant
  matchRequests,    \* match_requests table
  matchConnections, \* match_connections table
  chatMessages,     \* chat_messages table
  pending,          \* handlers suspended at an await
  sent,             \* per socket, the ws.send / ws.ping calls of the last step
  lastOp            \* the request the last step handled

vars == <<now, nextBeat, connectedClients, readyState, connPc, clientId,
          matchRequests, matchConnections, chatMessages, pending, sent,
          lastOp>>

\* ------------------------------------------------------------------- Map
\* connectedClients maps a clientId to an entry [ws, userId, lastPong]
Undefined == [ws |-> 0, userId |-> NoUser, lastPong |-> 0]

MapHas(m, k) == k \in DOMAIN m
MapGet(m, k) == IF MapHas(m, k) THEN m[k] ELSE Undefined
\* a set that stores only the entries bound to a user
MapSetBound(m, k, v) ==
  IF v.userId = NoUser THEN m
  ELSE [x \in (DOMAIN m) \cup {k} |-> IF x = k THEN v ELSE m[x]]
MapSet(m, k, v) == [x \in (DOMAIN m) \cup {k} |-> IF x = k THEN v ELSE m[x]]
\* a delete that removes every session of the user the entry is bound to
MapDeleteUser(m, k) ==
  [x \in {y \in DOMAIN m : y # k /\ (k \notin DOMAIN m \/ m[y].userId # m[k].userId)} |-> m[x]]
MapDelete(m, k) == [x \in (DOMAIN m) \ {k} |-> m[x]]

\* -------------------------------------------------------------- messages
\* one ws.send(JSON.stringify(msg)) or ws.ping() call; `delivered` is whether
\* the socket was OPEN at the call (ws writes no frame to a socket that is
\* closing or closed)
Msg(type, reason, from, conn, open) ==
  [type |-> type, reason |-> reason, fromUserId |-> from,
   connectionId |-> conn, delivered |-> open]

Plain(type, open) == Msg(type, Missing, NoUser, Missing, open)
ErrorMsg(reason, open) == Msg("error", reason, NoUser, Missing, open)

\* a reply written to every socket
Everyone(s, msgs) == [t \in Sockets |-> msgs]

Nothing == [s \in Sockets |-> <<>>]
Only(s, msgs) == [Nothing EXCEPT ![s] = msgs]

NoMsg == [json |-> FALSE, type |-> Missing, targetUserId |-> Missing,
          connectionId |-> Missing, fromUserId |-> Missing]

\* req.body of a REST request; an absent field is Missing (NoId for requestId)
NoBody == [requestId |-> NoId, accepterId |-> Missing, connectionId |-> Missing,
           receiverId |-> Missing, message |-> Missing]

\* a handled request: op names the handler segment, sock the socket it runs
\* for, userId the caller or the captured client.userId, msg the inbound
\* message, conns the rows the storage lookup returned, failed whether the
\* storage call rejected, id/status the REST parameters, evicted the clientIds
\* a heartbeat removed and visits the calls of its callback per clientId, req
\* the HTTP request being served and body its body
NoOp == [op |-> "none", sock |-> 0, userId |-> NoUser, msg |-> NoMsg,
         conns |-> {}, failed |-> FALSE, id |-> Missing, status |-> Missing,
         evicted |-> {}, visits |-> << >>, req |-> 0, body |-> NoBody]

Op(name, s) == [NoOp EXCEPT !.op = name, !.sock = s]

\* ------------------------------------------------------------- handshake
\* Origin and Host header values; "" stands for an absent header
Origins == {"", "https://app.example", "https://evil.example", "app.example",
            "https://app.example:443", "https://app.example:8443",
            "https://APP.example", "https://app.example.evil.example"}
Hosts == {"", "app.example", "app.example:443", "app.example:8443", "APP.example"}

\* new URL(origin).host: the host in lower case, followed by the port unless
\* it is the scheme's default; "invalid" stands for the TypeError new URL
\* throws
UrlHost(origin) ==
  CASE origin = "https://app.example" -> "app.example"
    [] origin = "https://evil.example" -> "evil.example"
    [] origin = "https://app.example:443" -> "app.example"
    [] origin = "https://app.example:8443" -> "app.example:8443"
    [] origin = "https://APP.example" -> "app.example"
    [] origin = "https://app.example.evil.example" -> "app.example.evil.example"
    [] OTHER -> "invalid"

\* a check that accepts an origin that merely starts with the host
OriginPrefixes == {<<"https://app.example.evil.example", "app.example">>,
                   <<"https://app.example:8443", "app.example">>,
                   <<"https://app.example:443", "app.example">>}
verifyClientPrefix(origin, host) ==
  IF origin = "" \/ host = "" THEN FALSE
  ELSE IF UrlHost(origin) = "invalid" THEN FALSE
  ELSE UrlHost(origin) = host \/ <<origin, host>> \in OriginPrefixes

verifyClient(origin, host) ==
  IF origin = "" \/ host = "" THEN FALSE
  ELSE IF UrlHost(origin) = "invalid" THEN FALSE
  ELSE UrlHost(origin) = host

\* wss.on('connection'): everything up to the await on the session parser,
\* or the whole handler when the request carries no cookie.  id is the value
\* Math.random() produced.
Connect(s, origin, host, cookie, id) ==
  /\ readyState[s] = "IDLE"
  /\ UNCHANGED <<now, nextBeat, matchRequests, matchConnections, chatMessages, pending>>
  /\ IF ~verifyClient(origin, host)
     THEN /\ readyState' = [readyState EXCEPT ![s] = "REJECTED"]
          /\ sent' = Nothing
          /\ lastOp' = NoOp
          /\ UNCHANGED <<connectedClients, connPc, clientId>>
     ELSE /\ readyState' = [readyState EXCEPT ![s] = "OPEN"]
          /\ clientId' = [clientId EXCEPT ![s] = id]
          /\ IF cookie
             THEN /\ connPc' = [connPc EXCEPT ![s] = "awaitSession"]
                  /\ sent' = Nothing
                  /\ lastOp' = NoOp
                  /\ UNCHANGED connectedClients
             ELSE /\ connectedClients' = MapSet(connectedClients, id,
                       [ws |-> s, userId |-> NoUser, lastPong |-> now])
                  /\ connPc' = [connPc EXCEPT ![s] = "done"]
                  /\ sent' = Only(s, <<Plain("auth_failed", TRUE),
                                       Plain("welcome", TRUE)>>)
                  /\ lastOp' = Op("registered", s)

SessionOutcomes == Users \cup {"nouser", "error"}

\* a handler whose catch block returns after `auth_failed`: no listeners, no
\* `welcome` when the session parser fails
ResolveSessionReturnOnError(s, outcome) ==
  /\ connPc[s] = "awaitSession"
  /\ UNCHANGED <<now, nextBeat, readyState, clientId, matchRequests,
                 matchConnections, chatMessages, pending>>
  /\ LET uid == IF outcome \in Users THEN outcome ELSE NoUser
         open == readyState[s] = "OPEN"
     IN
     /\ connectedClients' = MapSet(connectedClients, clientId[s],
           [ws |-> s, userId |-> uid, lastPong |-> now])
     /\ sent' = Only(s, IF outcome = "error"
                        THEN << Plain("auth_failed", open) >>
                        ELSE << IF outcome \in Users
                                THEN Msg("auth_success", Missing, uid, Missing, open)
                                ELSE Plain("auth_failed", open),
                                Plain("welcome", open) >>)
     /\ lastOp' = [Op("registered", s) EXCEPT !.userId = uid]
  /\ connPc' = [connPc EXCEPT ![s] = "done"]

\* wss.on('connection') resumed after the session parser: registration, the
\* auth result, installation of the pong/message/close/error listeners, welcome
ResolveSession(s, outcome) ==
  /\ connPc[s] = "awaitSession"
  /\ UNCHANGED <<now, nextBeat, readyState, clientId, matchRequests,
                 matchConnections, chatMessages, pending>>
  /\ LET uid == IF outcome \in Users THEN outcome ELSE NoUser
         open == readyState[s] = "OPEN"
     IN
     /\ connectedClients' = MapSet(connectedClients, clientId[s],
           [ws |-> s, userId |-> uid, lastPong |-> now])
     /\ sent' = Only(s, << IF outcome \in Users
                           THEN Msg("auth_success", Missing, uid, Missing, open)
                           ELSE Plain("auth_failed", open),
                           Plain("welcome", open) >>)
     /\ lastOp' = [Op("registered", s) EXCEPT !.userId = uid]
  /\ connPc' = [connPc EXCEPT ![s] = "done"]

\* a pong handler that leaves lastPong as it is
PongIgnored(s) ==
  /\ readyState[s] = "OPEN"
  /\ connPc[s] = "done"
  /\ sent' = Nothing
  /\ lastOp' = NoOp
  /\ UNCHANGED <<now, nextBeat, connectedClients, readyState, connPc, clientId,
                 matchRequests, matchConnections, chatMessages, pending>>

\* ws.on('pong')
Pong(s) ==
  /\ readyState[s] = "OPEN"
  /\ connPc[s] = "done"
  /\ LET client == MapGet(connectedClients, clientId[s]) IN
     connectedClients' =
       IF client # Undefined
       THEN MapSet(connectedClients, clientId[s], [client EXCEPT !.lastPong = now])
       ELSE connectedClients
  /\ sent' = Nothing
  /\ lastOp' = NoOp
  /\ UNCHANGED <<now, nextBeat, readyState, connPc, clientId, matchRequests,
                 matchConnections, chatMessages, pending>>

\* the peer closes or the transport fails: the socket leaves OPEN; the
\* 'close' event follows in a later turn of the event loop
BeginClose(s) ==
  /\ readyState[s] = "OPEN"
  /\ readyState' = [readyState EXCEPT ![s] = "CLOSING"]
  /\ sent' = Nothing
  /\ lastOp' = NoOp
  /\ UNCHANGED <<now, nextBeat, connectedClients, connPc, clientId,
                 matchRequests, matchConnections, chatMessages, pending>>

\* ws.on('error'): emitted while the socket is being torn down
ErrorEvent(s) ==
  /\ readyState[s] \in {"OPEN", "CLOSING"}
  /\ readyState' = [readyState EXCEPT ![s] = "CLOSING"]
  /\ connectedClients' = IF connPc[s] = "done"
                         THEN MapDelete(connectedClients, clientId[s])
                         ELSE connectedClients
  /\ sent' = Nothing
  /\ lastOp' = NoOp
  /\ UNCHANGED <<now, nextBeat, connPc, clientId, matchRequests,
                 matchConnections, chatMessages, pending>>

\* ws.on('close'); the event is lost when it is emitted before the
\* connection handler has installed the listener
CloseEvent(s) ==
  /\ readyState[s] = "CLOSING"
  /\ readyState' = [readyState EXCEPT ![s] = "CLOSED"]
  /\ connectedClients' = IF connPc[s] = "done"
                         THEN MapDelete(connectedClients, clientId[s])
                         ELSE connectedClients
  /\ sent' = Nothing
  /\ lastOp' = NoOp
  /\ UNCHANGED <<now, nextBeat, connPc, clientId, matchRequests,
                 matchConnections, chatMessages, pending>>

\* ------------------------------------------------------------- heartbeat
\* an eviction test that already fires at the threshold
IsStaleAtThreshold(lastPong, t) == lastPong # 0 /\ t - lastPong >= StaleThreshold

\* an eviction test with the operands of the subtraction exchanged
IsStaleSwapped(lastPong, t) == lastPong # 0 /\ lastPong - t > StaleThreshold

\* the test of the forEach callback
IsStale(lastPong, t) == lastPong # 0 /\ t - lastPong > StaleThreshold

\* ws.terminate() on every socket of `ids`: a socket that is not already
\* closed is destroyed
Terminate(rs, m, ids) ==
  [s \in Sockets |->
     IF rs[s] # "CLOSED" /\ \E k \in ids : m[k].ws = s THEN "CLOSING" ELSE rs[s]]

\* the orders in which the keys of a Map can have been inserted
Orders(S) ==
  {o \in [1..Cardinality(S) -> S] : \A i, j \in 1..Cardinality(S) : o[i] = o[j] => i = j}

\* a test that lets a closing socket through
NotClosed(state) == state # "CLOSED"

\* ws.readyState === WebSocket.OPEN
IsOpen(state) == state = "OPEN"

\* the forEach callback of the heartbeat for key k: a stale entry is
\* terminated and deleted, any other is pinged when its socket is open.  h is
\* the walk so far: the map m, the sockets rs, the frames out, the keys evicted
\* and, per key, the number of calls of the callback
Callback(h, k) ==
  LET ws == h.m[k].ws
      called == [h EXCEPT !.visits[k] = @ + 1]
  IN
  IF IsStale(h.m[k].lastPong, now)
  THEN [called EXCEPT !.rs = Terminate(h.rs, h.m, {k}),
                      !.m = MapDelete(h.m, k),
                      !.evicted = @ \cup {k}]
  ELSE IF IsOpen(h.rs[ws])
  THEN [called EXCEPT !.out[ws] = Append(@, Plain("ping_frame", TRUE))]
  ELSE called

\* an iteration over an array the delete splices: the entries behind the
\* deleted one move up by one slot while the index moves on
NextEntrySpliced(i, deleted) == IF deleted THEN i + 2 ELSE i + 1

\* Map.prototype.forEach: the slot visited after slot i.  A delete empties
\* the slot of its entry and leaves the other entries of the list in place
NextEntry(i, deleted) == i + 1

\* Map.prototype.forEach(callback) over the entry list of the map: an
\* emptied slot is passed over, every other is handed to the callback
RECURSIVE ForEach(_, _, _)
ForEach(entries, i, h) ==
  IF i > Len(entries) THEN h
  ELSE IF ~MapHas(h.m, entries[i]) THEN ForEach(entries, i + 1, h)
  ELSE LET after == Callback(h, entries[i])
           next == NextEntry(i, ~MapHas(after.m, entries[i]))
       IN ForEach(entries, next, after)

\* the setInterval callback: each entry of the map is visited once; a stale
\* one is terminated and deleted, any other is pinged when its socket is open
heartbeatInterval ==
  /\ now = nextBeat
  /\ \E entries \in Orders(DOMAIN connectedClients) :
     \E h \in {ForEach(entries, 1,
                  [m |-> connectedClients, rs |-> readyState, out |-> Nothing,
                   evicted |-> {},
                   visits |-> [k \in DOMAIN connectedClients |-> 0]])} :
       /\ connectedClients' = h.m
       /\ readyState' = h.rs
       /\ sent' = h.out
       /\ lastOp' = [Op("heartbeat", 0) EXCEPT !.evicted = h.evicted,
                                               !.visits = h.visits]
  /\ nextBeat' = nextBeat + HeartbeatInterval
  /\ UNCHANGED <<now, connPc, clientId, matchRequests, matchConnections,
                 chatMessages, pending>>

\* time passes; the interval timer fires when it is due
Tick ==
  /\ now < nextBeat
  /\ now < (MaxTicks + 1) * TimeStep
  /\ now' = now + TimeStep
  /\ sent' = Nothing
  /\ lastOp' = NoOp
  /\ UNCHANGED <<nextBeat, connectedClients, readyState, connPc, clientId,
                 matchRequests, matchConnections, chatMessages, pending>>

\* the suspended handlers whose next segment is one of ops; at most
\* MaxPending signaling handlers and MaxPending REST handlers are in flight
InFlight(ops) == {q \in pending : q.op \in ops}
RestOps == {"patch_update", "patch_broadcast", "request_broadcast"}

\* --------------------------------------------------------------- storage
NoConn == [id |-> Missing, requestId |-> Missing, requesterId |-> NoUser,
           accepterId |-> NoUser, status |-> Missing]

\* a lookup that returns the connections of every user
getAllConnections(userId) == matchConnections

\* DatabaseStorage.getUserConnections
getUserConnections(userId) ==
  {c \in matchConnections : c.requesterId = userId \/ c.accepterId = userId}

\* DatabaseStorage.updateMatchConnectionStatus: the table after the UPDATE
updateMatchConnectionStatus(id, status) ==
  {IF c.id = id THEN [c EXCEPT !.status = status] ELSE c : c \in matchConnections}

\* a find that takes a connection of the sender whatever its id
FindAnyConnection(conns, id) ==
  IF \E c \in conns : c.id = id THEN CHOOSE c \in conns : c.id = id
  ELSE IF conns # {} THEN CHOOSE c \in conns : TRUE ELSE NoConn

\* Array.prototype.find(c => c.id === id); id is the table's primary key
FindConnection(conns, id) ==
  IF \E c \in conns : c.id = id THEN CHOOSE c \in conns : c.id = id ELSE NoConn

\* ------------------------------------------------------------- broadcast
\* a broadcast to every open socket of the registry, bound or not
broadcastToOpen(type) ==
  [s \in Sockets |->
     IF \E k \in DOMAIN connectedClients :
          connectedClients[k].ws = s /\ readyState[s] = "OPEN"
     THEN <<Plain(type, TRUE)>> ELSE <<>>]

\* a targeted broadcast that ignores its userIds
broadcastToBound(userIds, type) ==
  [s \in Sockets |->
     IF \E k \in DOMAIN connectedClients :
          /\ connectedClients[k].ws = s
          /\ connectedClients[k].userId # NoUser
          /\ readyState[s] = "OPEN"
     THEN <<Plain(type, TRUE)>> ELSE <<>>]

\* broadcastToUsers(userIds, message)
broadcastToUsers(userIds, type) ==
  [s \in Sockets |->
     IF \E k \in DOMAIN connectedClients :
          /\ connectedClients[k].ws = s
          /\ connectedClients[k].userId # NoUser
          /\ connectedClients[k].userId \in userIds
          /\ readyState[s] = "OPEN"
     THEN <<Plain(type, TRUE)>> ELSE <<>>]

\* a broadcast over the server's open sockets instead of the registry
broadcastToSockets(type) ==
  [s \in Sockets |-> IF readyState[s] = "OPEN" THEN <<Plain(type, TRUE)>> ELSE <<>>]

\* broadcastToAll(message)
broadcastToAll(type) ==
  [s \in Sockets |->
     IF \E k \in DOMAIN connectedClients :
          /\ connectedClients[k].ws = s
          /\ connectedClients[k].userId # NoUser
          /\ readyState[s] = "OPEN"
     THEN <<Plain(type, TRUE)>> ELSE <<>>]

\* ------------------------------------------------------------- signaling
\* a check that the sender is a participant, whoever the target is
isParticipant(connection, userId, targetUserId) ==
  connection.requesterId = userId \/ connection.accepterId = userId

\* the check of step 4
isValidTarget(connection, userId, targetUserId) ==
  \/ connection.requesterId = userId /\ connection.accepterId = targetUserId
  \/ connection.accepterId = userId /\ connection.requesterId = targetUserId

\* a check that only refuses a declined connection
IsNotDeclined(connection) == connection.status # "declined"

\* the check of step 5
IsAccepted(connection) == connection.status = "accepted"

\* a relay that trusts the payload's fromUserId
RelayFromPayload(userId, msg) == IF msg.fromUserId # Missing THEN msg.fromUserId ELSE userId

\* fromUserId of the relayed message
RelayFrom(userId, msg) == userId

\* the forEach of step 6
RelayTo(targetUserId, type, from, conn) ==
  [s \in Sockets |->
     IF \E k \in DOMAIN connectedClients :
          /\ connectedClients[k].ws = s
          /\ connectedClients[k].userId = targetUserId
          /\ readyState[s] = "OPEN"
     THEN <<Msg(type, Missing, from, conn, TRUE)>> ELSE <<>>]

\* a test that the session exists, bound or not
HasSession(client) == client # Undefined

\* client?.userId is truthy
HasUserId(client) == client.userId # NoUser

\* a catch block that answers the sender with an `error`
ReplyParseError(s) == Only(s, <<ErrorMsg("parse", TRUE)>>)

\* the outer catch of ws.on('message'), entered when JSON.parse throws: the
\* error is logged and nothing is sent
CatchParseError(s) == Nothing

\* ws.on('message') up to the await on storage.getUserConnections (or the
\* whole handler when it returns earlier); dbFails: the storage call rejects
Message(s, m, dbFails) ==
  /\ readyState[s] = "OPEN"
  /\ connPc[s] = "done"
  /\ UNCHANGED <<now, nextBeat, connectedClients, readyState, connPc, clientId,
                 matchRequests, matchConnections, chatMessages>>
  /\ LET client == MapGet(connectedClients, clientId[s])
         op == [Op("message", s) EXCEPT !.msg = m, !.userId = client.userId]
     IN
     IF ~m.json
     THEN /\ sent' = CatchParseError(s) /\ lastOp' = op /\ UNCHANGED pending
     ELSE IF m.type = "ping"
     THEN /\ sent' = Only(s, <<Plain("pong", TRUE)>>)
          /\ lastOp' = op /\ UNCHANGED pending
     ELSE IF m.type \notin SignalingTypes
     THEN /\ sent' = Nothing /\ lastOp' = op /\ UNCHANGED pending
     ELSE IF ~HasUserId(client)
     THEN /\ sent' = Only(s, <<ErrorMsg("auth", TRUE)>>)
          /\ lastOp' = op /\ UNCHANGED pending
     ELSE IF m.targetUserId = Missing \/ m.connectionId = Missing
     THEN /\ sent' = Only(s, <<ErrorMsg("missing", TRUE)>>)
          /\ lastOp' = op /\ UNCHANGED pending
     ELSE /\ Cardinality(InFlight({"signaling"})) < MaxPending
          /\ pending' = pending \cup
               {[op EXCEPT !.op = "signaling",
                           !.failed = dbFails,
                           !.conns = IF dbFails THEN {}
                                     ELSE getUserConnections(client.userId)]}
          /\ sent' = Nothing
          /\ lastOp' = [op EXCEPT !.op = "lookup"]

\* ws.on('message') resumed after the await
SignalingResume(p) ==
  /\ p \in pending
  /\ p.op = "signaling"
  /\ pending' = pending \ {p}
  /\ lastOp' = p
  /\ UNCHANGED <<now, nextBeat, connectedClients, readyState, connPc, clientId,
                 matchRequests, matchConnections, chatMessages>>
  /\ LET open == readyState[p.sock] = "OPEN"
         connection == FindConnection(p.conns, p.msg.connectionId)
     IN
     sent' =
       IF p.failed THEN Only(p.sock, <<ErrorMsg("failed", open)>>)
       ELSE IF connection = NoConn
       THEN Only(p.sock, <<ErrorMsg("notfound", open)>>)
       ELSE IF ~isValidTarget(connection, p.userId, p.msg.targetUserId)
       THEN Only(p.sock, <<ErrorMsg("target", open)>>)
       ELSE IF ~IsAccepted(connection)
       THEN Only(p.sock, <<ErrorMsg("status", open)>>)
       ELSE RelayTo(p.msg.targetUserId, p.msg.type,
                    RelayFrom(p.userId, p.msg), p.msg.connectionId)

\* ------------------------------------------------------------------ REST
\* PATCH /api/match-connections/:id/status up to the end of the await on
\* storage.getUserConnections
PatchConnectionStatus(userId, id, status) ==
  /\ UNCHANGED <<now, nextBeat, connectedClients, readyState, connPc, clientId,
                 matchRequests, matchConnections, chatMessages>>
  /\ sent' = Nothing
  /\ LET op == [Op("patch_connection", 0) EXCEPT
                  !.userId = userId, !.id = id, !.status = status]
     IN
     IF status \notin Statuses
     THEN /\ lastOp' = [op EXCEPT !.op = "patch_400"] /\ UNCHANGED pending
     ELSE /\ Cardinality(InFlight(RestOps)) < MaxPending
          /\ pending' = pending \cup
               {[op EXCEPT !.op = "patch_update",
                           !.conns = getUserConnections(userId)]}
          /\ lastOp' = op

\* PATCH resumed: the participant check, then storage.updateMatchConnectionStatus
PatchUpdate(p) ==
  /\ p \in pending
  /\ p.op = "patch_update"
  /\ sent' = Nothing
  /\ UNCHANGED <<now, nextBeat, connectedClients, readyState, connPc, clientId,
                 matchRequests, chatMessages>>
  /\ LET connectionToUpdate == FindConnection(p.conns, p.id) IN
     IF connectionToUpdate = NoConn
     THEN /\ pending' = pending \ {p}
          /\ lastOp' = [p EXCEPT !.op = "patch_404"]
          /\ UNCHANGED matchConnections
     ELSE /\ matchConnections' = updateMatchConnectionStatus(p.id, p.status)
          /\ pending' = (pending \ {p}) \cup
               {[p EXCEPT !.op = "patch_broadcast", !.conns = {connectionToUpdate}]}
          /\ lastOp' = [p EXCEPT !.op = "patch_updated"]

\* PATCH resumed after the update: the broadcast to both participants
PatchBroadcast(p) ==
  /\ p \in pending
  /\ p.op = "patch_broadcast"
  /\ pending' = pending \ {p}
  /\ lastOp' = p
  /\ UNCHANGED <<now, nextBeat, connectedClients, readyState, connPc, clientId,
                 matchRequests, matchConnections, chatMessages>>
  /\ LET connectionToUpdate == FindConnection(p.conns, p.id) IN
     sent' = broadcastToUsers(
               {connectionToUpdate.requesterId, connectionToUpdate.accepterId},
               "match_connection_updated")

\* gen_random_uuid() of the n-th row of match_requests
RequestId(n) == <<"r", n>>

\* POST /api/match-requests up to the end of the await on
\* storage.createMatchRequest; valid: insertMatchRequestSchema.parse accepts
\* the body
CreateMatchRequest(userId, valid) ==
  /\ UNCHANGED <<now, nextBeat, connectedClients, readyState, connPc, clientId,
                 matchConnections, chatMessages>>
  /\ sent' = Nothing
  /\ LET op == [Op("post_request", 0) EXCEPT !.userId = userId] IN
     IF ~valid
     THEN /\ lastOp' = [op EXCEPT !.op = "post_request_400"]
          /\ UNCHANGED <<matchRequests, pending>>
     ELSE /\ Cardinality(InFlight(RestOps)) < MaxPending
          /\ Cardinality(matchRequests) < MaxRequests
          /\ LET id == RequestId(Cardinality(matchRequests) + 1) IN
             /\ matchRequests' = matchRequests \cup
                  {[id |-> id, userId |-> userId, status |-> "waiting"]}
             /\ pending' = pending \cup
                  {[op EXCEPT !.op = "request_broadcast", !.id = id]}
          /\ lastOp' = op

\* a broadcast that yields to the event loop between two sends: each step
\* serves one more session, and the handler ends when none is left
RequestBroadcastStepwise(p) ==
  /\ p \in pending
  /\ p.op = "request_broadcast"
  /\ lastOp' = p
  /\ UNCHANGED <<now, nextBeat, connectedClients, readyState, connPc, clientId,
                 matchRequests, matchConnections, chatMessages>>
  /\ LET todo == {k \in (DOMAIN connectedClients) \ p.evicted :
                    /\ connectedClients[k].userId # NoUser
                    /\ readyState[connectedClients[k].ws] = "OPEN"}
     IN
     IF todo = {}
     THEN pending' = pending \ {p} /\ sent' = Nothing
     ELSE LET k == CHOOSE k \in todo : TRUE IN
          /\ pending' = (pending \ {p}) \cup {[p EXCEPT !.evicted = @ \cup {k}]}
          /\ sent' = Only(connectedClients[k].ws,
                          <<Plain("match_request_created", TRUE)>>)

\* POST /api/match-requests resumed: the broadcast to all users
RequestBroadcast(p) ==
  /\ p \in pending
  /\ p.op = "request_broadcast"
  /\ pending' = pending \ {p}
  /\ lastOp' = p
  /\ sent' = broadcastToAll("match_request_created")
  /\ UNCHANGED <<now, nextBeat, connectedClients, readyState, connPc, clientId,
                 matchRequests, matchConnections, chatMessages>>

\* ------------------------------------------------------- specifications
\* The tables after u2 and u3 each posted a match request, u1 connected to
\* u2's request and u2 to u3's, and u3 accepted.
SeedRequests ==
  {[id |-> RequestId(1), userId |-> "u2", status |-> "waiting"],
   [id |-> RequestId(2), userId |-> "u3", status |-> "waiting"]}
SeedConnections ==
  {[id |-> "c1", requestId |-> RequestId(1), requesterId |-> "u1",
    accepterId |-> "u2", status |-> "pending"],
   [id |-> "c2", requestId |-> RequestId(2), requesterId |-> "u2",
    accepterId |-> "u3", status |-> "accepted"]}

SeedConnection(status) ==
  {IF c.id = "c1" THEN [c EXCEPT !.status = status] ELSE c : c \in SeedConnections}

Start ==
  /\ now = TimeStep
  /\ nextBeat = TimeStep + HeartbeatInterval
  /\ connectedClients = << >>
  /\ readyState = [s \in Sockets |-> "IDLE"]
  /\ connPc = [s \in Sockets |-> "none"]
  /\ clientId = [s \in Sockets |-> NoId]
  /\ matchRequests = SeedRequests
  /\ chatMessages = {}
  /\ pending = {}
  /\ sent = Nothing
  /\ lastOp = NoOp

\* the inbound messages of the model
SignalingMsg(type, target, conn, from) ==
  [json |-> TRUE, type |-> type, targetUserId |-> target,
   connectionId |-> conn, fromUserId |-> from]

Inbound ==
  {SignalingMsg("webrtc_offer", "u2", "c1", "u3"),
   SignalingMsg("webrtc_answer", "u1", "c1", Missing),
   SignalingMsg("webrtc_ice_candidate", "u2", "c1", Missing),
   SignalingMsg("webrtc_offer", "u3", "c1", Missing),
   SignalingMsg("webrtc_offer", "u3", "c2", Missing),
   SignalingMsg("webrtc_offer", "u2", "c9", Missing),
   SignalingMsg("webrtc_offer", Missing, "c1", Missing),
   SignalingMsg("webrtc_offer", "u2", Missing, Missing),
   SignalingMsg("ping", Missing, Missing, Missing),
   SignalingMsg("subscribe", Missing, Missing, Missing),
   NoMsg}

\* the session each socket's cookie resolves to
Identity(s) ==
  CASE s = 1 -> {"u1", "nouser"}
    [] s = 2 -> {"u2", "error"}
    [] OTHER -> {"u2", "u3"}

\* sockets connect from the application's own origin, each with a clientId
\* of its own
Lifecycle ==
  \/ \E s \in Sockets, cookie \in BOOLEAN :
        Connect(s, "https://app.example", "app.example", cookie, Token(s))
  \/ \E s \in Sockets : \E outcome \in Identity(s) : ResolveSession(s, outcome)
  \/ \E s \in Sockets : BeginClose(s)
  \/ \E s \in Sockets : ErrorEvent(s)
  \/ \E s \in Sockets : CloseEvent(s)

\* Signaling
InitRelay == Start /\ \E status \in Statuses : matchConnections = SeedConnection(status)

NextRelay ==
  \/ Lifecycle
  \/ \E s \in Sockets, m \in Inbound : Message(s, m, FALSE)
  \/ \E s \in Sockets : Message(s, SignalingMsg("webrtc_offer", "u2", "c1", "u3"), TRUE)
  \/ \E p \in pending : SignalingResume(p)

SpecRelay == InitRelay /\ [][NextRelay]_vars

\* Signaling while the accepter changes the status of c1
InitPatch == Start /\ matchConnections = SeedConnections

NextPatch ==
  \/ Lifecycle
  \/ Message(1, SignalingMsg("webrtc_offer", "u2", "c1", "u3"), FALSE)
  \/ Message(2, SignalingMsg("webrtc_answer", "u1", "c1", Missing), FALSE)
  \/ \E p \in pending : SignalingResume(p)
  \/ \E status \in {"accepted", "declined"} : PatchConnectionStatus("u2", "c1", status)
  \/ \E p \in pending : PatchUpdate(p)
  \/ \E p \in pending : PatchBroadcast(p)

SpecPatch == InitPatch /\ [][NextPatch]_vars

\* Dispatches of the REST handlers, with inbound messages that are answered
\* without a storage lookup
InboundDirect ==
  {SignalingMsg("webrtc_offer", Missing, "c1", Missing),
   SignalingMsg("ping", Missing, Missing, Missing),
   NoMsg}

PatchCalls ==
  {<<"u2", "c1", "accepted">>, <<"u3", "c1", "accepted">>,
   <<"u2", "c1", "archived">>}

NextBroadcast ==
  \/ Lifecycle
  \/ \E s \in Sockets, m \in InboundDirect : Message(s, m, FALSE)
  \/ \E c \in PatchCalls : PatchConnectionStatus(c[1], c[2], c[3])
  \/ \E p \in pending : PatchUpdate(p)
  \/ \E p \in pending : PatchBroadcast(p)
  \/ \E valid \in BOOLEAN : CreateMatchRequest("u1", valid)
  \/ \E p \in pending : RequestBroadcast(p)

SpecBroadcast == InitPatch /\ [][NextBroadcast]_vars

\* Liveness tracking: sockets come and go, answer pings or fall silent
NextHeartbeat ==
  \/ Lifecycle
  \/ \E s \in Sockets : Pong(s)
  \/ heartbeatInterval
  \/ Tick

SpecHeartbeat == InitPatch /\ [][NextHeartbeat]_vars

\* ------------------------------------------------------------ properties
\* the sessions of the registry bound to user u
SessionsOf(u) ==
  {s \in Sockets : \E k \in DOMAIN connectedClients :
                      connectedClients[k].ws = s /\ connectedClients[k].userId = u}

\* socket s has a registry entry (bound or anonymous)
Registered(s) == \E k \in DOMAIN connectedClients : connectedClients[k].ws = s

\* the last step relayed a signaling message to socket s
RelayedTo(s) == \E i \in 1..Len(sent[s]) : sent[s][i].type \in SignalingTypes

\* the last step sent socket s exactly one `error` and nothing else
OneError(s) == Len(sent[s]) = 1 /\ sent[s][1].type = "error"

\* the last step handled a signaling message: synchronously ("message") or
\* in the segment after the storage lookup ("signaling")
HandledSignaling ==
  /\ lastOp.op \in {"message", "signaling"}
  /\ lastOp.msg.json
  /\ lastOp.msg.type \in SignalingTypes

\* the last step rejected it: the sender alone was sent one `error`
RejectedOnlyToSender ==
  /\ OneError(lastOp.sock)
  /\ sent[lastOp.sock][1].delivered = (readyState[lastOp.sock] = "OPEN")
  /\ \A s \in Sockets \ {lastOp.sock} : sent[s] = <<>>

\* the lookup returned an accepted connection with the message's
\* connectionId between the sender and the message's target
Authorized ==
  /\ lastOp.op = "signaling"
  /\ ~lastOp.failed
  /\ lastOp.userId # NoUser
  /\ \E c \in lastOp.conns :
        /\ c.id = lastOp.msg.connectionId
        /\ c.status = "accepted"
        /\ \/ c.requesterId = lastOp.userId /\ c.accepterId = lastOp.msg.targetUserId
           \/ c.accepterId = lastOp.userId /\ c.requesterId = lastOp.msg.targetUserId

\* C1: an authorized offer / answer / ICE candidate is relayed, with its own
\* kind and connectionId, to every registered session of targetUserId whose
\* socket is open and to no other socket, and its fromUserId is the user id
\* the sender's session is bound to, not the one of the payload.
C1_RelayToTargetSessions ==
  Authorized =>
    /\ \A s \in Sockets :
         sent[s] = IF s \in SessionsOf(lastOp.msg.targetUserId)
                      /\ readyState[s] = "OPEN"
                   THEN <<[type |-> lastOp.msg.type, reason |-> Missing,
                           fromUserId |-> lastOp.userId,
                           connectionId |-> lastOp.msg.connectionId,
                           delivered |-> TRUE]>>
                   ELSE <<>>
    /\ clientId[lastOp.sock] \in DOMAIN connectedClients =>
         connectedClients[clientId[lastOp.sock]].userId = lastOp.userId

\* two devices of the target receive u1's offer, whose payload claimed u3,
\* while an open session of another user receives nothing
C1_Witness ==
  /\ Authorized
  /\ lastOp.userId = "u1" /\ lastOp.msg.fromUserId = "u3"
  /\ \E s, t \in Sockets : s # t /\ RelayedTo(s) /\ RelayedTo(t)
                           /\ sent[s][1].fromUserId = "u1"
  /\ \E s \in Sockets : Registered(s) /\ readyState[s] = "OPEN" /\ sent[s] = <<>>

\* the sender's session has no bound user id
SenderAnonymous ==
  ~(/\ clientId[lastOp.sock] \in DOMAIN connectedClients
    /\ connectedClients[clientId[lastOp.sock]].userId # NoUser)

\* C2: a signaling message from a session with no bound user id is answered
\* by one `error` to the sender, relayed to nobody, and starts no storage
\* lookup.
C2_AnonymousSignalingRejected ==
  [][ (/\ lastOp'.op \in {"message", "lookup"}
       /\ lastOp'.msg.json
       /\ lastOp'.msg.type \in SignalingTypes
       /\ SenderAnonymous')
      => /\ lastOp'.op = "message"
         /\ sent' = [s \in Sockets |->
                       IF s = lastOp'.sock
                       THEN <<[type |-> "error", reason |-> "auth",
                               fromUserId |-> NoUser, connectionId |-> Missing,
                               delivered |-> TRUE]>>
                       ELSE <<>>]
         /\ pending' = pending ]_vars

\* an anonymous session sent a complete offer while a session of its target
\* was registered and open
C2_Witness ==
  /\ lastOp.op = "message"
  /\ lastOp.msg.type = "webrtc_offer"
  /\ lastOp.msg.targetUserId = "u2" /\ lastOp.msg.connectionId = "c1"
  /\ SenderAnonymous
  /\ OneError(lastOp.sock)
  /\ \E s \in SessionsOf("u2") : readyState[s] = "OPEN"
  /\ \E c \in matchConnections : c.id = "c1" /\ c.status = "accepted"

\* the message's connectionId names a connection of which the sender is
\* requester or accepter
SenderInConnection ==
  \E c \in matchConnections :
     /\ c.id = lastOp.msg.connectionId
     /\ lastOp.userId # NoUser
     /\ (c.requesterId = lastOp.userId \/ c.accepterId = lastOp.userId)

\* C3: a signaling message whose connectionId is not the id of a connection
\* of the sender is relayed to nobody, whatever its target, and the sender is
\* sent an `error`.
C3_UnknownConnectionRejected ==
  (HandledSignaling /\ ~SenderInConnection) => RejectedOnlyToSender

\* u2 names c9 with a target it has an accepted connection with, whose
\* session is open: the reply is "not found"
C3_Witness ==
  /\ lastOp.op = "signaling"
  /\ lastOp.userId = "u2"
  /\ lastOp.msg.connectionId = "c9" /\ lastOp.msg.targetUserId = "u2"
  /\ \E c \in matchConnections : c.id = "c1" /\ c.status = "accepted"
  /\ \E s \in SessionsOf("u2") : readyState[s] = "OPEN" /\ s # lastOp.sock
  /\ OneError(lastOp.sock) /\ sent[lastOp.sock][1].reason = "notfound"

\* the message's target is the other participant of the connection it names
TargetIsOtherParticipant ==
  \E c \in matchConnections :
     /\ c.id = lastOp.msg.connectionId
     /\ lastOp.userId # NoUser
     /\ \/ c.requesterId = lastOp.userId /\ c.accepterId = lastOp.msg.targetUserId
        \/ c.accepterId = lastOp.userId /\ c.requesterId = lastOp.msg.targetUserId

\* C4: a signaling message is relayed only when its target is the other
\* participant of the connection it names; for any other target the sender is
\* sent an `error` and nothing is relayed.
C4_TargetMustBeOtherParticipant ==
  /\ (HandledSignaling /\ ~TargetIsOtherParticipant) => RejectedOnlyToSender
  /\ (\E s \in Sockets : RelayedTo(s)) => (HandledSignaling /\ TargetIsOtherParticipant)

\* u1 names its accepted connection c1 but targets u3, who has an open
\* session: the reply is "target"
C4_Witness ==
  /\ lastOp.op = "signaling"
  /\ lastOp.userId = "u1"
  /\ lastOp.msg.connectionId = "c1" /\ lastOp.msg.targetUserId = "u3"
  /\ \E c \in lastOp.conns : c.id = "c1" /\ c.status = "accepted"
  /\ \E s \in SessionsOf("u3") : readyState[s] = "OPEN"
  /\ OneError(lastOp.sock) /\ sent[lastOp.sock][1].reason = "target"

\* C6: a signaling rejection sends its `error` to the sending socket alone,
\* leaves every socket's readyState as it was and leaves the registry
\* unchanged.
C6_RejectionIsLocal ==
  [][ (/\ lastOp'.op \in {"message", "signaling"}
       /\ lastOp'.msg.json
       /\ lastOp'.msg.type \in SignalingTypes
       /\ \E s \in Sockets : \E i \in 1..Len(sent'[s]) : sent'[s][i].type = "error")
      => /\ \A s \in Sockets \ {lastOp'.sock} : sent'[s] = <<>>
         /\ Len(sent'[lastOp'.sock]) = 1
         /\ readyState' = readyState
         /\ connectedClients' = connectedClients ]_vars

\* a rejection delivered to an open sender while two other sessions are
\* registered and open
C6_Witness ==
  /\ HandledSignaling
  /\ OneError(lastOp.sock) /\ sent[lastOp.sock][1].delivered
  /\ \A s \in Sockets : Registered(s) /\ readyState[s] = "OPEN"

\* the row of the connection the message names, as the lookup returned it
SnapshotStatus(status) ==
  \E c \in lastOp.conns : c.id = lastOp.msg.connectionId /\ c.status = status

\* C5: a signaling message is relayed only when the status the lookup read is
\* "accepted"; when it read pending or declined the sender is sent an `error`
\* and nothing is relayed, whatever a concurrent PATCH has written since.  The
\* rows a lookup returns are rows of the table at the time of the lookup.
C5_OnlyAcceptedRelayed ==
  [][ /\ (\E s \in Sockets : RelayedTo(s)')
         => (lastOp'.op = "signaling" /\ SnapshotStatus("accepted")')
      /\ (lastOp'.op = "signaling"
          /\ (SnapshotStatus("pending")' \/ SnapshotStatus("declined")'))
         => RejectedOnlyToSender'
      /\ lastOp'.op = "lookup"
         => \A p \in pending' \ pending : p.conns \subseteq matchConnections ]_vars

\* the lookup read "pending", the PATCH then stored "accepted", and the
\* message is refused although its target has an open session
C5_Witness ==
  /\ lastOp.op = "signaling"
  /\ SnapshotStatus("pending")
  /\ \E c \in matchConnections : c.id = lastOp.msg.connectionId /\ c.status = "accepted"
  /\ \E s \in SessionsOf(lastOp.msg.targetUserId) : readyState[s] = "OPEN"
  /\ OneError(lastOp.sock) /\ sent[lastOp.sock][1].reason = "status"

\* socket s is registered with a bound user id
Bound(s) ==
  \E k \in DOMAIN connectedClients :
     connectedClients[k].ws = s /\ connectedClients[k].userId # NoUser

\* socket s is registered without a bound user id
Anonymous(s) ==
  \E k \in DOMAIN connectedClients :
     connectedClients[k].ws = s /\ connectedClients[k].userId = NoUser

Event(type) == [type |-> type, reason |-> Missing, fromUserId |-> NoUser,
                connectionId |-> Missing, delivered |-> TRUE]

\* C7: toAll delivers its event once to each registered session that has a
\* bound user id and an open socket, and to no other socket.
C7_ToAllBoundAndOpen ==
  lastOp.op = "request_broadcast" =>
    \A s \in Sockets :
      sent[s] = IF Bound(s) /\ readyState[s] = "OPEN"
                THEN <<Event("match_request_created")>> ELSE <<>>

\* a bound session receives the event, an open anonymous session and a bound
\* session whose socket is not open do not
C7_Witness ==
  /\ lastOp.op = "request_broadcast"
  /\ \E s \in Sockets : Bound(s) /\ sent[s] # <<>>
  /\ \E s \in Sockets : Anonymous(s) /\ readyState[s] = "OPEN" /\ sent[s] = <<>>
  /\ \E s \in Sockets : Bound(s) /\ readyState[s] # "OPEN" /\ sent[s] = <<>>

\* the participants of the connection a PATCH names
PatchedParticipants ==
  UNION {{c.requesterId, c.accepterId} : c \in {d \in matchConnections : d.id = lastOp.id}}

\* C8: toUsers(userIds, event) delivers the event once to each registered
\* session whose bound user id is in userIds and whose socket is open, and to
\* no other socket.
C8_ToUsersMembersOnly ==
  lastOp.op = "patch_broadcast" =>
    \A s \in Sockets :
      sent[s] = IF (\E u \in PatchedParticipants : s \in SessionsOf(u))
                   /\ readyState[s] = "OPEN"
                THEN <<Event("match_connection_updated")>> ELSE <<>>

\* sessions of u1, u2 and u3 are open; u1 and u2 receive the event, u3 does not
C8_Witness ==
  /\ lastOp.op = "patch_broadcast"
  /\ \E s \in SessionsOf("u1") : sent[s] # <<>>
  /\ \E s \in SessionsOf("u2") : sent[s] # <<>>
  /\ \E s \in SessionsOf("u3") : readyState[s] = "OPEN" /\ sent[s] = <<>>

\* the kinds of message the last step sent to socket s
KindsSent(s) == {sent[s][i].type : i \in 1..Len(sent[s])}

\* C9 as claimed: an anonymous session is only ever sent `welcome` and
\* `auth_failed`.
C9_AnonymousOnlyHandshake ==
  \A s \in Sockets : Anonymous(s) => KindsSent(s) \subseteq {"welcome", "auth_failed"}

\* C9: an anonymous session is only ever sent `welcome`, `auth_failed` and
\* the replies to its own inbound messages (`pong`, `error`); it is never
\* sent a broadcast or targeted event.
C9_AnonymousHandshakeAndReplies ==
  \A s \in Sockets :
    Anonymous(s) =>
      /\ KindsSent(s) \subseteq {"welcome", "auth_failed", "pong", "error"}
      /\ KindsSent(s) \cap {"pong", "error"} # {}
           => (lastOp.op = "message" /\ lastOp.sock = s)

\* an anonymous session is answered `pong` in a state where a bound session
\* is open too
C9_Witness ==
  /\ lastOp.op = "message"
  /\ Anonymous(lastOp.sock)
  /\ KindsSent(lastOp.sock) = {"pong"}
  /\ \E s \in Sockets : Bound(s) /\ readyState[s] = "OPEN"

\* C10: a heartbeat tick terminates and removes every registered session
\* whose last pong is more than 40 s old, and removes no other session.
C10_HeartbeatEvictsStale ==
  [][ nextBeat' # nextBeat =>
        \A k \in DOMAIN connectedClients :
          IF now - connectedClients[k].lastPong > 40000
          THEN /\ k \notin DOMAIN connectedClients'
               /\ readyState'[connectedClients[k].ws] \in {"CLOSING", "CLOSED"}
          ELSE /\ k \in DOMAIN connectedClients'
               /\ connectedClients'[k] = connectedClients[k] ]_vars

\* one tick evicted a silent session and kept a session that is exactly at
\* the threshold
C10_Witness ==
  /\ lastOp.op = "heartbeat"
  /\ lastOp.evicted # {}
  /\ \E k \in DOMAIN connectedClients : now - connectedClients[k].lastPong = 40000

\* ------------------------------------------------- half-closed sockets
\* Peers that fall silent without closing: sockets connect, answer pings for
\* a while or not at all, and are only ever closed by the heartbeat's
\* terminate().  The clock advances and the interval timer fires when due.
NextSilent ==
  \/ \E s \in Sockets, cookie \in BOOLEAN :
        Connect(s, "https://app.example", "app.example", cookie, Token(s))
  \/ \E s \in Sockets : \E outcome \in Identity(s) : ResolveSession(s, outcome)
  \/ \E s \in Sockets : Pong(s)
  \/ \E s \in Sockets : CloseEvent(s)
  \/ heartbeatInterval
  \/ Tick

SpecSilent ==
  InitPatch /\ [][NextSilent]_vars /\ WF_vars(Tick) /\ WF_vars(heartbeatInterval)

\* the instants of the modelled clock
Times == {n * TimeStep : n \in 1..(MaxTicks + 1)}

\* a heartbeat falls within the modelled time at which an acknowledgment made
\* at t is more than the threshold old
BeatAfter(t) ==
  \E n \in 1..(MaxTicks + 1) :
     LET beat == TimeStep + n * HeartbeatInterval IN
     beat <= Horizon /\ beat - t > StaleThreshold

\* clientId k is registered and its last acknowledgment dates from t
SilentSince(k, t) ==
  k \in DOMAIN connectedClients /\ connectedClients[k].lastPong = t

\* C11: a registered session whose peer acknowledges nothing after t, and to
\* which no close or error event is delivered, is eventually removed from the
\* registry by the heartbeat (for every t whose eviction tick lies within the
\* modelled time).
C11_SilentSessionEvicted ==
  \A k \in ClientIds : \A t \in {u \in Times : BeatAfter(u)} :
     SilentSince(k, t) ~> ~SilentSince(k, t)

\* a tick evicted a session whose socket was still open to the server, while
\* a session that has acknowledged since stays registered
C11_Witness ==
  /\ lastOp.op = "heartbeat"
  /\ \E k \in lastOp.evicted : readyState[CHOOSE s \in Sockets : clientId[s] = k] = "CLOSING"
  /\ \E k \in DOMAIN connectedClients : connectedClients[k].lastPong > TimeStep
  /\ \A s \in Sockets : connPc[s] = "done"

\* ------------------------------------------------------------ isolation
\* Dispatches and relays while sessions close, fail and are evicted.  Sockets
\* connect, each with a session cookie, during the first heartbeat period; the REST calls and the inbound
\* messages arrive at the last instant of the modelled clock, before or after
\* the heartbeat that is due then.
NextIsolation ==
  \/ /\ now < TimeStep + HeartbeatInterval
     /\ \/ \E s \in Sockets :
              Connect(s, "https://app.example", "app.example", TRUE, Token(s))
        \/ \E s \in Sockets : \E outcome \in Identity(s) : ResolveSession(s, outcome)
  \/ \E s \in Sockets : BeginClose(s)
  \/ \E s \in Sockets : ErrorEvent(s)
  \/ \E s \in Sockets : CloseEvent(s)
  \/ heartbeatInterval
  \/ Tick
  \/ /\ now = Horizon
     /\ \/ CreateMatchRequest("u1", TRUE)
        \/ PatchConnectionStatus("u2", "c1", "accepted")
        \/ Message(2, SignalingMsg("webrtc_offer", "u3", "c2", Missing), FALSE)
        \/ Message(1, SignalingMsg("webrtc_offer", "u3", "c2", Missing), FALSE)
  \/ \E p \in pending : RequestBroadcast(p)
  \/ \E p \in pending : PatchUpdate(p)
  \/ \E p \in pending : PatchBroadcast(p)
  \/ \E p \in pending : SignalingResume(p)

SpecIsolation == InitPatch /\ [][NextIsolation]_vars

\* the last step was a dispatch: toAll, toUsers, or the relay of an
\* authorized signaling message
IsDispatch ==
  lastOp.op \in {"request_broadcast", "patch_broadcast"} \/ Authorized

\* the users the dispatch of the last step addresses
DispatchTargets ==
  IF lastOp.op = "request_broadcast" THEN Users
  ELSE IF lastOp.op = "patch_broadcast"
  THEN UNION {{c.requesterId, c.accepterId} : c \in lastOp.conns}
  ELSE {lastOp.msg.targetUserId}

\* the kind of event the dispatch of the last step carries
DispatchType ==
  IF lastOp.op = "request_broadcast" THEN "match_request_created"
  ELSE IF lastOp.op = "patch_broadcast" THEN "match_connection_updated"
  ELSE lastOp.msg.type

\* the registry keys whose entry a step changes or removes
Changed ==
  {k \in DOMAIN connectedClients :
     k \notin DOMAIN connectedClients' \/ connectedClients'[k] # connectedClients[k]}

\* C12: whatever has happened to the other sessions (socket closed or
\* closing, entry evicted or removed after an error, signaling refused), a
\* dispatch delivers its event to every registered session of an addressed
\* user whose socket is open; and every step changes the registry entries of
\* the failing session only: a heartbeat removes stale entries and no other, a
\* close or error event removes at most the entry of its own socket, and a
\* dispatch or a rejection changes none.
C12_FailuresAreLocal ==
  [][ /\ IsDispatch' =>
           \A s \in Sockets :
             ((\E u \in DispatchTargets' : s \in SessionsOf(u)')
              /\ readyState'[s] = "OPEN")
             => /\ Len(sent'[s]) = 1
                /\ sent'[s][1].type = DispatchType'
                /\ sent'[s][1].delivered
      /\ IF nextBeat' # nextBeat
         THEN \A k \in Changed : now - connectedClients[k].lastPong > StaleThreshold
         ELSE /\ Cardinality(Changed) <= 1
              /\ \A k \in Changed :
                   /\ k \notin DOMAIN connectedClients'
                   /\ readyState[connectedClients[k].ws] \in {"OPEN", "CLOSING"}
                   /\ readyState'[connectedClients[k].ws] \in {"CLOSING", "CLOSED"}
                   /\ \A t \in Sockets \ {connectedClients[k].ws} :
                        readyState'[t] = readyState[t]
      /\ lastOp'.op \notin {"none", "heartbeat"} => Changed = {} ]_vars

\* after the heartbeat evicted the early sessions, an event is delivered to an
\* open session while another session of an addressed user is registered with
\* a socket that is no longer open and a third has left the registry
C12_Witness ==
  /\ IsDispatch
  /\ nextBeat > Horizon
  /\ \E s \in Sockets : Bound(s) /\ readyState[s] = "OPEN" /\ sent[s] # <<>>
  /\ \E s \in Sockets : /\ \E u \in DispatchTargets : s \in SessionsOf(u)
                        /\ readyState[s] = "CLOSING" /\ sent[s] = <<>>
  /\ \E s \in Sockets : connPc[s] = "done" /\ ~Registered(s)

\* ------------------------------------------------------------ handshake
\* Upgrade requests with every combination of Origin and Host headers
NextHandshake ==
  \/ \E s \in Sockets, origin \in Origins, host \in Hosts, cookie \in BOOLEAN :
        Connect(s, origin, host, cookie, Token(s))
  \/ \E s \in Sockets : \E outcome \in Identity(s) : ResolveSession(s, outcome)
  \/ \E s \in Sockets : BeginClose(s)
  \/ \E s \in Sockets : CloseEvent(s)

SpecHandshake == InitPatch /\ [][NextHandshake]_vars

\* both headers are present, Origin parses as a URL, and the URL's host is
\* the Host header
OriginMatchesHost(origin, host) ==
  /\ origin # "" /\ host # ""
  /\ UrlHost(origin) # "invalid"
  /\ UrlHost(origin) = host

\* C13: an upgrade request is accepted if and only if both Origin and Host
\* are present, Origin parses as a URL and the URL's host equals Host; a
\* refused request opens no socket, runs no connection handler and creates no
\* registry entry, then or later.
C13_HandshakeIffOriginIsHost ==
  [][ /\ \A s \in Sockets, origin \in Origins, host \in Hosts, cookie \in BOOLEAN :
           Connect(s, origin, host, cookie, Token(s)) =>
             IF OriginMatchesHost(origin, host)
             THEN readyState'[s] = "OPEN" /\ connPc'[s] # "none"
             ELSE /\ readyState'[s] = "REJECTED"
                  /\ connPc'[s] = "none"
                  /\ clientId'[s] = NoId
                  /\ connectedClients' = connectedClients
                  /\ sent' = Nothing
      /\ \A s \in Sockets :
           readyState[s] = "REJECTED" =>
             /\ readyState'[s] = "REJECTED"
             /\ connPc'[s] = "none"
             /\ ~Registered(s)' ]_vars

\* one upgrade was refused while another socket, accepted, is registered
C13_Witness ==
  /\ \E s \in Sockets : readyState[s] = "REJECTED" /\ ~Registered(s)
  /\ \E s \in Sockets : readyState[s] = "OPEN" /\ Registered(s)
  /\ \E s \in Sockets : readyState[s] = "OPEN" /\ connPc[s] = "awaitSession"

\* C14: when the handshake finds no authenticated user (no cookie, a session
\* without a logged-in user, or an error of the session parser), the socket
\* is registered under its clientId with no user id, `auth_failed` and then
\* `welcome` are sent on it and on no other socket, and the server leaves the
\* socket and every other registry entry as they are.
C14_AuthFailureStillRegisters ==
  [][ (lastOp'.op = "registered" /\ lastOp'.userId = NoUser) =>
        LET s == lastOp'.sock
            open == readyState'[s] = "OPEN"
        IN
        /\ clientId'[s] \in DOMAIN connectedClients'
        /\ connectedClients'[clientId'[s]] =
             [ws |-> s, userId |-> NoUser, lastPong |-> now]
        /\ \A k \in DOMAIN connectedClients : k # clientId'[s] =>
             /\ k \in DOMAIN connectedClients'
             /\ connectedClients'[k] = connectedClients[k]
        /\ sent' = [t \in Sockets |->
                      IF t = s THEN <<Plain("auth_failed", open), Plain("welcome", open)>>
                      ELSE <<>>]
        /\ readyState'[s] = IF readyState[s] = "IDLE" THEN "OPEN" ELSE readyState[s]
        /\ \A t \in Sockets \ {s} : readyState'[t] = readyState[t] ]_vars

\* the session parser failed for socket 2, which is registered without a user
\* id and stays open, next to a session bound to a user
C14_Witness ==
  /\ lastOp.op = "registered" /\ lastOp.userId = NoUser /\ lastOp.sock = 2
  /\ Anonymous(2) /\ readyState[2] = "OPEN"
  /\ sent[2] = <<Plain("auth_failed", TRUE), Plain("welcome", TRUE)>>
  /\ \E s \in Sockets : Bound(s) /\ readyState[s] = "OPEN"

\* C15: an inbound message that is not valid JSON is dropped: nothing is sent
\* to the sender or to any other socket, no storage lookup is started, every
\* socket keeps its readyState and the registry is unchanged.
C15_MalformedMessageDropped ==
  [][ (lastOp'.op \in {"message", "lookup"} /\ ~lastOp'.msg.json) =>
        /\ lastOp'.op = "message"
        /\ \A s \in Sockets : sent'[s] = <<>>
        /\ pending' = pending
        /\ readyState' = readyState
        /\ connectedClients' = connectedClients ]_vars

\* a bound, open session sent a payload that is not JSON while another
\* session was registered and open
C15_Witness ==
  /\ lastOp.op = "message" /\ ~lastOp.msg.json
  /\ Bound(lastOp.sock) /\ readyState[lastOp.sock] = "OPEN"
  /\ \E s \in Sockets \ {lastOp.sock} : Registered(s) /\ readyState[s] = "OPEN"

\* the registry without key k, every other entry as it is
Without(k) == [j \in (DOMAIN connectedClients) \ {k} |-> connectedClients[j]]

\* C16: removal is idempotent.  Deleting a clientId from any registry the
\* program reaches, once or twice, gives the registry without that key and
\* with every other entry as it was; and every close or error event, first or
\* repeated, after a heartbeat eviction or not, leaves exactly that registry
\* and completes (no error is raised: the socket reaches its next readyState).
C16_RemovalIdempotent ==
  [][ /\ \A k \in ClientIds :
           /\ MapDelete(connectedClients, k) = Without(k)
           /\ MapDelete(MapDelete(connectedClients, k), k) = Without(k)
      /\ \A s \in Sockets :
           (connPc[s] = "done" /\ (CloseEvent(s) \/ ErrorEvent(s))) =>
             /\ connectedClients' = Without(clientId[s])
             /\ clientId[s] \notin DOMAIN connectedClients
                  => connectedClients' = connectedClients
             /\ readyState'[s] \in {"CLOSING", "CLOSED"}
      /\ \A s \in Sockets :
           (readyState[s] = "CLOSING" /\ connPc[s] = "done"
            /\ clientId[s] \notin DOMAIN connectedClients)
           => ENABLED CloseEvent(s) ]_vars

\* the heartbeat has just evicted a session, whose close event is still to
\* come and will delete its clientId a second time; another socket's close
\* event has been handled, and a third session is still registered
C16_Witness ==
  /\ lastOp.op = "heartbeat"
  /\ \E s \in Sockets : /\ clientId[s] \in lastOp.evicted
                        /\ readyState[s] = "CLOSING" /\ ~Registered(s)
  /\ \E s \in Sockets : readyState[s] = "CLOSED" /\ connPc[s] = "done" /\ ~Registered(s)
  /\ \E s \in Sockets : Registered(s) /\ readyState[s] = "OPEN"

\* the kinds of event the REST handlers dispatch
DispatchedKinds == {"match_request_created", "match_connection_updated"}

\* C17: delivery is at most once and never replayed.  An event reaches a
\* socket only in the step of its dispatch call, only if the socket was
\* registered with a bound user id and open when the call was made, and in
\* one copy; the call ends the handler, whose request never dispatches again
\* (a created match request has a fresh id).  A registration sends nothing but
\* the auth result and `welcome`, so a session registered after a dispatch
\* receives nothing of it.
C17_AtMostOnceNoReplay ==
  [][ /\ \A s \in Sockets :
           KindsSent(s)' \cap DispatchedKinds # {} =>
             /\ lastOp'.op \in {"request_broadcast", "patch_broadcast"}
             /\ Bound(s) /\ readyState[s] = "OPEN"
             /\ Len(sent'[s]) = 1
      /\ lastOp'.op \in {"request_broadcast", "patch_broadcast"} =>
           /\ lastOp' \in pending
           /\ pending' = pending \ {lastOp'}
      /\ \A p \in pending' \ pending :
           p.op = "request_broadcast" =>
             /\ p.id \notin {r.id : r \in matchRequests}
             /\ p.id \in {r.id : r \in matchRequests'}
      /\ lastOp'.op = "registered" =>
           \A s \in Sockets :
             KindsSent(s)' \subseteq {"auth_success", "auth_failed", "welcome"} ]_vars

\* u1 registers after the creation of the third match request was broadcast:
\* it is sent its auth result and `welcome`, nothing else, and no dispatch is
\* outstanding
C17_Witness ==
  /\ lastOp.op = "registered" /\ lastOp.userId = "u1"
  /\ Cardinality(matchRequests) = Cardinality(SeedRequests) + 1
  /\ InFlight(RestOps) = {}
  /\ KindsSent(lastOp.sock) = {"auth_success", "welcome"}
  /\ \E s \in Sockets \ {lastOp.sock} : Bound(s) /\ readyState[s] = "OPEN"

\* the users the REST dispatch of a step addresses
Addressed(op) ==
  IF op.op = "request_broadcast" THEN Users
  ELSE UNION {{c.requesterId, c.accepterId} : c \in op.conns}

\* C18: per-socket ordering.  A dispatch call makes all its sends inside its
\* own run-to-completion step: the step sends one event, of the call's kind,
\* to every session that is registered, bound to an addressed user and open,
\* and ends the handler, so that nothing of the call is left to be sent after
\* a later call; no other step sends a dispatched event.  The sends of a call
\* made earlier therefore precede, on every socket, the sends of a call made
\* later.
C18_DispatchOrderPerSocket ==
  [][ /\ lastOp'.op \in {"request_broadcast", "patch_broadcast"} =>
           /\ lastOp' \in pending
           /\ pending' = pending \ {lastOp'}
           /\ \A s \in Sockets :
                sent'[s] =
                  IF /\ readyState[s] = "OPEN"
                     /\ \E u \in Addressed(lastOp') : s \in SessionsOf(u)
                  THEN <<Event(IF lastOp'.op = "request_broadcast"
                               THEN "match_request_created"
                               ELSE "match_connection_updated")>>
                  ELSE <<>>
      /\ lastOp'.op \notin {"request_broadcast", "patch_broadcast"} =>
           \A s \in Sockets : KindsSent(s)' \cap DispatchedKinds = {} ]_vars

\* a session of u1 is sent the update of connection c1 after the creation of
\* the third match request was broadcast; both handlers have ended
C18_Witness ==
  /\ lastOp.op = "patch_broadcast"
  /\ Cardinality(matchRequests) = Cardinality(SeedRequests) + 1
  /\ InFlight(RestOps) = {}
  /\ \E s \in SessionsOf("u1") : sent[s] = <<Event("match_connection_updated")>>
  /\ \E s \in SessionsOf("u2") : sent[s] = <<Event("match_connection_updated")>>

\* the connection handler of socket s finishes in this step
Finishes(s) == connPc[s] # "done" /\ connPc'[s] = "done"

\* C19: every accepted socket is sent `welcome` once, at the end of its
\* handshake.  The step that finishes the connection handler (with or without
\* cookie, whatever the session parser returned) registers the socket and
\* sends it the auth result followed by `welcome`, nothing else and nothing in
\* between; the handler never runs again; `welcome` is sent in no other step;
\* and before that step the socket is sent nothing at all.
C19_WelcomeOnceAfterHandshake ==
  [][ \A s \in Sockets :
        /\ Finishes(s) =>
             /\ Len(sent'[s]) = 2
             /\ sent'[s][1].type \in {"auth_success", "auth_failed"}
             /\ sent'[s][2] = Plain("welcome", readyState'[s] = "OPEN")
             /\ Registered(s)' /\ ~Registered(s)
        /\ ~Finishes(s) => "welcome" \notin KindsSent(s)'
        /\ connPc[s] = "done" => connPc'[s] = "done"
        /\ connPc'[s] # "done" => sent'[s] = <<>> /\ ~Registered(s)' ]_vars

\* the session parser failed for socket 2: it is registered and welcomed in
\* one step, while a dispatch is in flight and another session is open
C19_Witness ==
  /\ lastOp.op = "registered" /\ lastOp.sock = 2 /\ lastOp.userId = NoUser
  /\ sent[2] = <<Plain("auth_failed", TRUE), Plain("welcome", TRUE)>>
  /\ InFlight(RestOps) # {}
  /\ \E s \in Sockets : Bound(s) /\ readyState[s] = "OPEN"
  /\ \E s \in Sockets : connPc[s] = "awaitSession"

\* C20: the registry holds no entry for a socket whose close event has been
\* delivered.
C20_NoEntryAfterClose ==
  \A s \in Sockets : readyState[s] = "CLOSED" => ~Registered(s)

\* the sender of the resumed lookup p is gone: its socket left OPEN or its
\* entry left the registry while storage.getUserConnections was pending
SenderGone(p) == readyState[p.sock] # "OPEN" \/ ~Registered(p.sock)

\* C21: a signaling handler resumed after the storage lookup whose sending
\* session was closed or removed in the meantime drops the result: no frame
\* is written to any socket, neither a relay to the target nor a reply to the
\* sender.
C21_ResumeDropsWhenSenderGone ==
  [][ lastOp'.op = "signaling" /\ SenderGone(lastOp') =>
        \A s \in Sockets : \A i \in 1..Len(sent'[s]) : ~sent'[s][i].delivered ]_vars

\* ------------------------------------------- REST: match connections
\* HTTP requests served at the same time
MaxPosts == 2
\* rows of match_connections
MaxConnections == 4

Requests == 1..MaxPosts
ConnectionOps == {"connection_request", "connection_create", "connection_broadcast"}

\* the handlers of HTTP request n that are suspended at an await
Serving(n) == {q \in pending : q.req = n}

\* gen_random_uuid() of the n-th row of match_connections
ConnectionId(n) ==
  CASE n = 3 -> "c3" [] n = 4 -> "c4" [] n = 5 -> "c5" [] OTHER -> "c6"

NoRequest == [id |-> NoId, userId |-> NoUser, status |-> Missing]

\* a find that takes a row whatever its id
FindFirstRequest(rows, id) ==
  IF rows # {} THEN CHOOSE r \in rows : TRUE ELSE NoRequest

\* matchRequests.find(r => r.id === requestId)
FindRequest(rows, id) ==
  IF \E r \in rows : r.id = id THEN CHOOSE r \in rows : r.id = id ELSE NoRequest

\* existingConnections.find(c => c.requestId === requestId &&
\* c.accepterId === accepterId) is truthy
IsDuplicate(conns, requestId, accepterId) ==
  \E c \in conns : c.requestId = requestId /\ c.accepterId = accepterId

\* POST /api/match-connections up to the end of the await on
\* storage.getMatchRequests
PostMatchConnection(n, requesterId, requestId, accepterId) ==
  /\ Serving(n) = {}
  /\ Cardinality(matchConnections) + Cardinality(InFlight(ConnectionOps))
       < MaxConnections
  /\ UNCHANGED <<now, nextBeat, connectedClients, readyState, connPc, clientId,
                 matchRequests, matchConnections, chatMessages>>
  /\ sent' = Nothing
  /\ LET op == [Op("post_connection", 0) EXCEPT
                  !.req = n, !.userId = requesterId,
                  !.body = [NoBody EXCEPT !.requestId = requestId,
                                          !.accepterId = accepterId]]
     IN
     IF requestId = NoId \/ accepterId = Missing
     THEN /\ lastOp' = [op EXCEPT !.op = "post_connection_400"]
          /\ UNCHANGED pending
     ELSE IF requesterId = accepterId
     THEN /\ lastOp' = [op EXCEPT !.op = "post_connection_400"]
          /\ UNCHANGED pending
     ELSE /\ pending' = pending \cup
               {[op EXCEPT !.op = "connection_request", !.conns = matchRequests]}
          /\ lastOp' = op

\* POST /api/match-connections resumed: the request must exist and belong to
\* accepterId; then the await on storage.getUserConnections
ConnectionRequest(p) ==
  /\ p \in pending
  /\ p.op = "connection_request"
  /\ UNCHANGED <<now, nextBeat, connectedClients, readyState, connPc, clientId,
                 matchRequests, matchConnections, chatMessages>>
  /\ sent' = Nothing
  /\ LET matchRequest == FindRequest(p.conns, p.body.requestId) IN
     IF matchRequest = NoRequest
     THEN /\ pending' = pending \ {p}
          /\ lastOp' = [p EXCEPT !.op = "post_connection_404"]
     ELSE IF matchRequest.userId # p.body.accepterId
     THEN /\ pending' = pending \ {p}
          /\ lastOp' = [p EXCEPT !.op = "post_connection_400"]
     ELSE /\ pending' = (pending \ {p}) \cup
               {[p EXCEPT !.op = "connection_create",
                          !.conns = getUserConnections(p.userId)]}
          /\ lastOp' = [p EXCEPT !.op = "connection_checked"]

\* POST /api/match-connections resumed: the duplicate check, then
\* storage.createMatchConnection.  The INSERT is rejected (500) when
\* request_id references no row of match_requests.
ConnectionCreate(p) ==
  /\ p \in pending
  /\ p.op = "connection_create"
  /\ UNCHANGED <<now, nextBeat, connectedClients, readyState, connPc, clientId,
                 matchRequests, chatMessages>>
  /\ sent' = Nothing
  /\ IF IsDuplicate(p.conns, p.body.requestId, p.body.accepterId)
     THEN /\ pending' = pending \ {p}
          /\ lastOp' = [p EXCEPT !.op = "post_connection_400"]
          /\ UNCHANGED matchConnections
     ELSE IF ~\E r \in matchRequests : r.id = p.body.requestId
     THEN /\ pending' = pending \ {p}
          /\ lastOp' = [p EXCEPT !.op = "post_connection_500"]
          /\ UNCHANGED matchConnections
     ELSE LET connection ==
                [id |-> ConnectionId(Cardinality(matchConnections) + 1),
                 requestId |-> p.body.requestId, requesterId |-> p.userId,
                 accepterId |-> p.body.accepterId, status |-> "pending"]
          IN
          /\ matchConnections' = matchConnections \cup {connection}
          /\ pending' = (pending \ {p}) \cup
               {[p EXCEPT !.op = "connection_broadcast", !.conns = {connection}]}
          /\ lastOp' = [p EXCEPT !.op = "connection_created", !.conns = {connection}]

\* POST /api/match-connections resumed after the insert: the broadcast to
\* both users
ConnectionBroadcast(p) ==
  /\ p \in pending
  /\ p.op = "connection_broadcast"
  /\ pending' = pending \ {p}
  /\ lastOp' = p
  /\ sent' = broadcastToUsers({p.userId, p.body.accepterId}, "match_connection_created")
  /\ UNCHANGED <<now, nextBeat, connectedClients, readyState, connPc, clientId,
                 matchRequests, matchConnections, chatMessages>>

\* ---------------------------------------------- REST: match requests
RequestStatuses == {"waiting", "connected", "declined"}

\* an UPDATE that reports success when it matched no row
UpdateSucceedsAlways(id) == TRUE

\* DatabaseStorage.updateMatchRequestStatus resolves: the UPDATE returned a
\* row.  It throws 'Match request not found' otherwise
UpdateSucceeds(id) == \E r \in matchRequests : r.id = id

\* DatabaseStorage.updateMatchRequestStatus: the table after the UPDATE
updateMatchRequestStatus(id, status) ==
  {IF r.id = id THEN [r EXCEPT !.status = status] ELSE r : r \in matchRequests}

\* DatabaseStorage.deleteMatchRequest resolves: the DELETE is rejected while a
\* row of match_connections references the request
DeleteSucceeds(id) == ~\E c \in matchConnections : c.requestId = id

\* DatabaseStorage.deleteMatchRequest: the table after the DELETE
deleteMatchRequest(id) == {r \in matchRequests : r.id # id}

\* PATCH /api/match-requests/:id/status up to the end of the await on
\* storage.getMatchRequests
PatchRequestStatus(n, userId, id, status) ==
  /\ Serving(n) = {}
  /\ UNCHANGED <<now, nextBeat, connectedClients, readyState, connPc, clientId,
                 matchRequests, matchConnections, chatMessages>>
  /\ sent' = Nothing
  /\ LET op == [Op("patch_request", 0) EXCEPT
                  !.req = n, !.userId = userId, !.status = status,
                  !.body = [NoBody EXCEPT !.requestId = id]]
     IN
     IF status \notin RequestStatuses
     THEN /\ lastOp' = [op EXCEPT !.op = "request_400"] /\ UNCHANGED pending
     ELSE /\ pending' = pending \cup
               {[op EXCEPT !.op = "request_update", !.conns = matchRequests]}
          /\ lastOp' = op

\* PATCH /api/match-requests/:id/status resumed: existence and ownership,
\* then storage.updateMatchRequestStatus
RequestUpdate(p) ==
  /\ p \in pending
  /\ p.op = "request_update"
  /\ UNCHANGED <<now, nextBeat, connectedClients, readyState, connPc, clientId,
                 matchConnections, chatMessages>>
  /\ sent' = Nothing
  /\ LET requestToUpdate == FindRequest(p.conns, p.body.requestId) IN
     IF requestToUpdate = NoRequest
     THEN /\ pending' = pending \ {p}
          /\ lastOp' = [p EXCEPT !.op = "request_404"]
          /\ UNCHANGED matchRequests
     ELSE IF requestToUpdate.userId # p.userId
     THEN /\ pending' = pending \ {p}
          /\ lastOp' = [p EXCEPT !.op = "request_403"]
          /\ UNCHANGED matchRequests
     ELSE IF ~UpdateSucceeds(p.body.requestId)
     THEN /\ pending' = pending \ {p}
          /\ lastOp' = [p EXCEPT !.op = "request_500"]
          /\ UNCHANGED matchRequests
     ELSE /\ matchRequests' = updateMatchRequestStatus(p.body.requestId, p.status)
          /\ pending' = (pending \ {p}) \cup
               {[p EXCEPT !.op = "request_update_broadcast"]}
          /\ lastOp' = [p EXCEPT !.op = "request_updated"]

\* DELETE /api/match-requests/:id up to the end of the await on
\* storage.getMatchRequests
DeleteMatchRequest(n, userId, id) ==
  /\ Serving(n) = {}
  /\ UNCHANGED <<now, nextBeat, connectedClients, readyState, connPc, clientId,
                 matchRequests, matchConnections, chatMessages>>
  /\ sent' = Nothing
  /\ LET op == [Op("delete_request", 0) EXCEPT
                  !.req = n, !.userId = userId,
                  !.body = [NoBody EXCEPT !.requestId = id]]
     IN
     /\ pending' = pending \cup
          {[op EXCEPT !.op = "request_delete", !.conns = matchRequests]}
     /\ lastOp' = op

\* DELETE /api/match-requests/:id resumed: existence and ownership, then
\* storage.deleteMatchRequest
RequestDelete(p) ==
  /\ p \in pending
  /\ p.op = "request_delete"
  /\ UNCHANGED <<now, nextBeat, connectedClients, readyState, connPc, clientId,
                 matchConnections, chatMessages>>
  /\ sent' = Nothing
  /\ LET requestToDelete == FindRequest(p.conns, p.body.requestId) IN
     IF requestToDelete = NoRequest
     THEN /\ pending' = pending \ {p}
          /\ lastOp' = [p EXCEPT !.op = "request_404"]
          /\ UNCHANGED matchRequests
     ELSE IF requestToDelete.userId # p.userId
     THEN /\ pending' = pending \ {p}
          /\ lastOp' = [p EXCEPT !.op = "request_403"]
          /\ UNCHANGED matchRequests
     ELSE IF ~DeleteSucceeds(p.body.requestId)
     THEN /\ pending' = pending \ {p}
          /\ lastOp' = [p EXCEPT !.op = "request_500"]
          /\ UNCHANGED matchRequests
     ELSE /\ matchRequests' = deleteMatchRequest(p.body.requestId)
          /\ pending' = (pending \ {p}) \cup
               {[p EXCEPT !.op = "request_delete_broadcast"]}
          /\ lastOp' = [p EXCEPT !.op = "request_deleted"]

\* PATCH and DELETE /api/match-requests resumed after the storage call: the
\* broadcast to all users
RequestChangeBroadcast(p) ==
  /\ p \in pending
  /\ p.op \in {"request_update_broadcast", "request_delete_broadcast"}
  /\ pending' = pending \ {p}
  /\ lastOp' = p
  /\ sent' = broadcastToAll(IF p.op = "request_update_broadcast"
                            THEN "match_request_updated"
                            ELSE "match_request_deleted")
  /\ UNCHANGED <<now, nextBeat, connectedClients, readyState, connPc, clientId,
                 matchRequests, matchConnections, chatMessages>>

\* the calls of POST /api/match-connections: <<caller, requestId, accepterId>>
ConnectionCalls ==
  {<<"u1", RequestId(2), "u3">>,   \* a new connection
   <<"u2", RequestId(3), "u1">>,   \* a connection to the request of u1
   <<"u1", RequestId(1), "u2">>,   \* the connection c1 again
   <<"u1", RequestId(2), "u2">>,   \* the accepter does not own the request
   <<"u2", RequestId(1), "u2">>,   \* the caller's own request
   <<"u1", RequestId(9), "u3">>,   \* no such request
   <<"u1", NoId, "u3">>,           \* no requestId
   <<"u1", RequestId(2), Missing>>}

\* sessions that stay open: every socket presents a cookie
Sessions ==
  \/ \E s \in Sockets :
        Connect(s, "https://app.example", "app.example", TRUE, Token(s))
  \/ \E s \in Sockets : \E outcome \in Identity(s) : ResolveSession(s, outcome)

\* The tables after u1, too, posted a match request, to which nobody has
\* connected yet.
InitRequests ==
  /\ now = TimeStep
  /\ nextBeat = TimeStep + HeartbeatInterval
  /\ connectedClients = << >>
  /\ readyState = [s \in Sockets |-> "IDLE"]
  /\ connPc = [s \in Sockets |-> "none"]
  /\ clientId = [s \in Sockets |-> NoId]
  /\ matchRequests = SeedRequests \cup
       {[id |-> RequestId(3), userId |-> "u1", status |-> "waiting"]}
  /\ matchConnections = SeedConnections
  /\ chatMessages = {}
  /\ pending = {}
  /\ sent = Nothing
  /\ lastOp = NoOp

\* u1 deletes its match request while connections to it and to the requests
\* of u2 and u3 are being created
NextConnections ==
  \/ Sessions
  \/ \E n \in Requests, c \in ConnectionCalls : PostMatchConnection(n, c[1], c[2], c[3])
  \/ \E p \in pending : ConnectionRequest(p)
  \/ \E p \in pending : ConnectionCreate(p)
  \/ \E p \in pending : ConnectionBroadcast(p)
  \/ \E n \in Requests : DeleteMatchRequest(n, "u1", RequestId(3))
  \/ \E p \in pending : RequestDelete(p)
  \/ \E p \in pending : RequestChangeBroadcast(p)

SpecConnections == InitRequests /\ [][NextConnections]_vars

\* the connections of one (requestId, requesterId, accepterId)
SameConnection(c) ==
  {d \in matchConnections : /\ d.requestId = c.requestId
                            /\ d.requesterId = c.requesterId
                            /\ d.accepterId = c.accepterId}

\* C22: duplicate connections are prevented: whatever the interleaving of the
\* POST /api/match-connections requests, at most one connection exists for a
\* given (requestId, requesterId, accepterId).
C22_NoDuplicateConnection ==
  \A c \in matchConnections : SameConnection(c) = {c}

\* the frames a heartbeat tick writes to a socket it pings
Pinged == <<Plain("ping_frame", TRUE)>>

\* C23 as stated: on a heartbeat tick every session that stays registered for
\* the whole tick is pinged, exactly once, and every other session is evicted
\* and not pinged.
C23_EachPingedOrEvicted ==
  [][ lastOp'.op = "heartbeat" =>
        \A k \in DOMAIN connectedClients :
          IF k \in DOMAIN connectedClients'
          THEN sent'[connectedClients[k].ws] = Pinged
          ELSE sent'[connectedClients[k].ws] = <<>> ]_vars

\* C23: iterating the registry is safe under removal from within the
\* iteration.  One heartbeat tick calls the forEach callback exactly once for
\* every session registered when the tick starts, whatever the order of the
\* entries and whichever of them the tick evicts: a session is either evicted
\* (and not pinged) or kept unchanged, and a kept session is pinged once if
\* its socket is open and not at all otherwise.
C23_EachVisitedOnce ==
  [][ lastOp'.op = "heartbeat" =>
        /\ lastOp'.visits = [k \in DOMAIN connectedClients |-> 1]
        /\ \A k \in DOMAIN connectedClients :
             LET s == connectedClients[k].ws IN
             IF k \in lastOp'.evicted
             THEN ~MapHas(connectedClients', k) /\ sent'[s] = <<>>
             ELSE /\ MapHas(connectedClients', k)
                  /\ connectedClients'[k] = connectedClients[k]
                  /\ sent'[s] = IF readyState[s] = "OPEN" THEN Pinged ELSE <<>> ]_vars

\* one tick evicted a session, pinged another and passed over a third whose
\* socket is closing
C23_Witness ==
  /\ lastOp.op = "heartbeat"
  /\ lastOp.evicted # {}
  /\ DOMAIN lastOp.visits = lastOp.evicted \cup DOMAIN connectedClients
  /\ \E k, j \in DOMAIN connectedClients :
       /\ sent[connectedClients[k].ws] = Pinged
       /\ readyState[connectedClients[j].ws] = "CLOSING"
       /\ sent[connectedClients[j].ws] = <<>>

\* ------------------------------------------------------------ session ids
\* Sockets whose clientId is any value Math.random().toString(36) can
\* return: nothing compares a new id with the keys of the registry
NextCollision ==
  \/ \E s \in Sockets, cookie \in BOOLEAN, id \in ClientIds :
        Connect(s, "https://app.example", "app.example", cookie, id)
  \/ \E s \in Sockets : \E outcome \in Identity(s) : ResolveSession(s, outcome)
  \/ \E s \in Sockets : Pong(s)
  \/ \E s \in Sockets : BeginClose(s)
  \/ \E s \in Sockets : ErrorEvent(s)
  \/ \E s \in Sockets : CloseEvent(s)

SpecCollision == InitPatch /\ [][NextCollision]_vars

\* C24: session ids are unique per live socket.  Registering a socket leaves
\* every entry already in the registry as it is, and the close or error event
\* of a socket removes no entry that holds another socket.
C24_SessionIdsUnique ==
  [][ /\ lastOp'.op = "registered" =>
           \A k \in DOMAIN connectedClients :
             MapHas(connectedClients', k) /\ connectedClients'[k] = connectedClients[k]
      /\ \A s \in Sockets :
           readyState'[s] # readyState[s] /\ readyState'[s] \in {"CLOSING", "CLOSED"} =>
             \A k \in DOMAIN connectedClients :
               connectedClients[k].ws # s => MapHas(connectedClients', k) ]_vars

\* the entry of key k is not past the stale threshold at the tick
Fresh(k) == now - connectedClients[k].lastPong <= StaleThreshold

\* C25 as stated: on a heartbeat tick every registered session that is not
\* past the stale threshold is sent a ping, whatever the state of its socket.
C25_PingEveryFresh ==
  [][ lastOp'.op = "heartbeat" =>
        \A k \in DOMAIN connectedClients :
          Fresh(k) => sent'[connectedClients[k].ws] = Pinged ]_vars

\* C25: on a heartbeat tick every registered session that is not past the
\* stale threshold and whose socket is open is sent one ping; a session that
\* is not past the threshold and whose socket is closing or closed is sent
\* nothing and stays in the registry.
C25_PingEveryFreshOpen ==
  [][ lastOp'.op = "heartbeat" =>
        \A k \in DOMAIN connectedClients :
          Fresh(k) =>
            /\ MapHas(connectedClients', k)
            /\ readyState[connectedClients[k].ws] = "OPEN"
                 => sent'[connectedClients[k].ws] = Pinged
            /\ readyState[connectedClients[k].ws] # "OPEN"
                 => sent'[connectedClients[k].ws] = <<>> ]_vars

\* a tick that evicted nothing pinged an open session and sent nothing to a
\* registered session whose socket is no longer open
C25_Witness ==
  /\ lastOp.op = "heartbeat"
  /\ lastOp.evicted = {}
  /\ \E k, j \in DOMAIN connectedClients :
       /\ readyState[connectedClients[k].ws] = "OPEN"
       /\ sent[connectedClients[k].ws] = Pinged
       /\ readyState[connectedClients[j].ws] \in {"CLOSING", "CLOSED"}
       /\ sent[connectedClients[j].ws] = <<>>

\* ------------------------------------------------------ responsive peers
\* the last step was a heartbeat tick that pinged socket s
Unanswered(s) == lastOp.op = "heartbeat" /\ sent[s] = Pinged

\* The peer of socket 1 answers every ping at once: its pong is the next
\* event the server handles after a tick that pinged it.  The other peers
\* answer or not; sockets 2 and 3 may draw the same clientId.
NextResponsive ==
  \/ Unanswered(1) /\ Pong(1)
  \/ /\ ~Unanswered(1)
     /\ \/ \E cookie \in BOOLEAN :
              Connect(1, "https://app.example", "app.example", cookie, Token(1))
        \/ \E s \in Sockets \ {1}, id \in ClientIds \ {Token(1)} :
              Connect(s, "https://app.example", "app.example", FALSE, id)
        \/ \E outcome \in Identity(1) : ResolveSession(1, outcome)
        \/ \E s \in Sockets : Pong(s)
        \/ \E s \in Sockets : BeginClose(s)
        \/ \E s \in Sockets : CloseEvent(s)
        \/ heartbeatInterval
        \/ Tick

SpecResponsive == InitPatch /\ [][NextResponsive]_vars

\* C26: a responsive session is never evicted.  A heartbeat tick neither
\* removes nor changes the entry of socket 1, whose peer answers every ping
\* before the next tick, and does not terminate the socket, as long as the
\* socket is open; and an entry enters the registry only by the registration
\* of its socket, so a pong that arrives for a session already removed leaves
\* the registry as it is.
C26_ResponsiveNeverEvicted ==
  [][ /\ lastOp'.op = "heartbeat" /\ readyState[1] = "OPEN" =>
           /\ readyState'[1] = "OPEN"
           /\ \A k \in DOMAIN connectedClients :
                connectedClients[k].ws = 1 =>
                  /\ k \notin lastOp'.evicted
                  /\ MapHas(connectedClients', k)
                  /\ connectedClients'[k] = connectedClients[k]
      /\ \A k \in (DOMAIN connectedClients') \ DOMAIN connectedClients :
           lastOp'.op = "registered" /\ connectedClients'[k].ws = lastOp'.sock
      /\ \A s \in Sockets :
           ~MapHas(connectedClients, clientId[s]) /\ Pong(s) =>
              connectedClients' = connectedClients ]_vars

\* at the last tick socket 1, registered at the start and pinged by the tick
\* before, was pinged again while a session that never answered was evicted;
\* socket 3 is open and its entry went with the close of socket 2, which had
\* drawn the same id, so a pong of socket 3 finds no session
C26_Witness ==
  /\ lastOp.op = "heartbeat" /\ now = Horizon
  /\ lastOp.evicted # {}
  /\ sent[1] = Pinged
  /\ MapHas(connectedClients, Token(1))
  /\ connectedClients[Token(1)].lastPong = TimeStep + HeartbeatInterval
  /\ readyState[3] = "OPEN" /\ connPc[3] = "done"
  /\ ~MapHas(connectedClients, clientId[3])

\* ------------------------------------------------- REST: chat messages
\* rows of chat_messages
MaxMessages == 2

MessageOps == {"message_send", "message_broadcast"}

\* validReceiver
validReceiver(connection, senderId, receiverId) ==
  connection.requesterId = receiverId \/ connection.accepterId = receiverId

\* POST /api/messages up to the end of the await on
\* storage.getUserConnections
PostMessage(n, senderId, connectionId, receiverId, message) ==
  /\ Serving(n) = {}
  /\ Cardinality(chatMessages) + Cardinality(InFlight(MessageOps)) < MaxMessages
  /\ UNCHANGED <<now, nextBeat, connectedClients, readyState, connPc, clientId,
                 matchRequests, matchConnections, chatMessages>>
  /\ sent' = Nothing
  /\ LET op == [Op("post_message", 0) EXCEPT
                  !.req = n, !.userId = senderId,
                  !.body = [NoBody EXCEPT !.connectionId = connectionId,
                                          !.receiverId = receiverId,
                                          !.message = message]]
     IN
     IF connectionId = Missing \/ receiverId = Missing \/ message = Missing
     THEN /\ lastOp' = [op EXCEPT !.op = "post_message_400"]
          /\ UNCHANGED pending
     ELSE /\ pending' = pending \cup
               {[op EXCEPT !.op = "message_send",
                           !.conns = getUserConnections(senderId)]}
          /\ lastOp' = op

\* POST /api/messages resumed: the participant and receiver checks, then
\* storage.sendMessage
MessageSend(p) ==
  /\ p \in pending
  /\ p.op = "message_send"
  /\ UNCHANGED <<now, nextBeat, connectedClients, readyState, connPc, clientId,
                 matchRequests, matchConnections>>
  /\ sent' = Nothing
  /\ LET connection == FindConnection(p.conns, p.body.connectionId) IN
     IF connection = NoConn
     THEN /\ pending' = pending \ {p}
          /\ lastOp' = [p EXCEPT !.op = "post_message_403"]
          /\ UNCHANGED chatMessages
     ELSE IF ~validReceiver(connection, p.userId, p.body.receiverId)
     THEN /\ pending' = pending \ {p}
          /\ lastOp' = [p EXCEPT !.op = "post_message_400"]
          /\ UNCHANGED chatMessages
     ELSE /\ chatMessages' = chatMessages \cup
               {[id |-> Cardinality(chatMessages) + 1,
                 connectionId |-> p.body.connectionId, senderId |-> p.userId,
                 receiverId |-> p.body.receiverId, message |-> p.body.message]}
          /\ pending' = (pending \ {p}) \cup {[p EXCEPT !.op = "message_broadcast"]}
          /\ lastOp' = [p EXCEPT !.op = "message_sent"]

\* POST /api/messages resumed after the insert: the broadcast to the receiver
MessageBroadcast(p) ==
  /\ p \in pending
  /\ p.op = "message_broadcast"
  /\ pending' = pending \ {p}
  /\ lastOp' = p
  /\ sent' = broadcastToUsers({p.body.receiverId}, "new_message")
  /\ UNCHANGED <<now, nextBeat, connectedClients, readyState, connPc, clientId,
                 matchRequests, matchConnections, chatMessages>>

\* the calls of POST /api/messages: <<sender, connectionId, receiverId, message>>
MessageCalls ==
  {<<"u1", "c1", "u2", "hi">>,      \* to the other participant
   <<"u2", "c1", "u1", "hi">>,
   <<"u1", "c1", "u1", "hi">>,      \* to the sender
   <<"u1", "c1", "u3", "hi">>,      \* to a third user
   <<"u3", "c1", "u1", "hi">>,      \* from a user outside the connection
   <<"u1", "c9", "u2", "hi">>,      \* no such connection
   <<"u1", "c1", "u2", Missing>>,
   <<"u1", Missing, "u2", "hi">>,
   <<"u1", "c1", Missing, "hi">>}

NextMessages ==
  \/ Sessions
  \/ \E n \in Requests, c \in MessageCalls : PostMessage(n, c[1], c[2], c[3], c[4])
  \/ \E p \in pending : MessageSend(p)
  \/ \E p \in pending : MessageBroadcast(p)

SpecMessages == InitPatch /\ [][NextMessages]_vars

\* C27: POST /api/messages stores a chat message and dispatches new_message
\* only when the sender is a participant of the connection and receiverId is
\* the other participant: never the sender, never a third user.
C27_ReceiverIsOtherParticipant ==
  /\ \A m \in chatMessages :
       \E c \in matchConnections :
         c.id = m.connectionId /\ isValidTarget(c, m.senderId, m.receiverId)
  /\ lastOp.op = "message_broadcast" =>
       \E c \in matchConnections :
         /\ c.id = lastOp.body.connectionId
         /\ isValidTarget(c, lastOp.userId, lastOp.body.receiverId)

\* ------------------------------------------- REST: connection status
\* the calls of PATCH /api/match-connections/:id/status: <<caller, id, status>>
StatusCalls ==
  {<<"u1", "c1", "accepted">>,    \* the requester
   <<"u2", "c1", "declined">>,    \* the accepter
   <<"u2", "c2", "pending">>,
   <<"u3", "c1", "accepted">>,    \* a user outside the connection
   <<"u2", "c1", "archived">>,    \* no status of a connection
   <<"u1", "c9", "accepted">>}    \* no such connection

NextStatus ==
  \/ Lifecycle
  \/ \E c \in StatusCalls : PatchConnectionStatus(c[1], c[2], c[3])
  \/ \E p \in pending : PatchUpdate(p)
  \/ \E p \in pending : PatchBroadcast(p)

SpecStatus == InitPatch /\ [][NextStatus]_vars

\* the row of match_connections with primary key id
Row(id) == CHOOSE c \in matchConnections : c.id = id

\* C28: PATCH /api/match-connections/:id/status changes the status of a
\* connection only when the caller is its requester or accepter and the new
\* status is pending, accepted or declined, and then stores exactly that
\* status in exactly that row; a refused request (400, 404) changes no row,
\* leaves no handler waiting and sends nothing; match_connection_updated is
\* sent only by the broadcast that follows an update, once to every open
\* session of the requester and of the accepter and to no other socket.
C28_StatusByParticipantsOnly ==
  [][ /\ (matchConnections' # matchConnections \/ lastOp'.op = "patch_updated") =>
           /\ lastOp'.op = "patch_updated"
           /\ lastOp'.status \in Statuses
           /\ \E c \in matchConnections :
                /\ c.id = lastOp'.id
                /\ lastOp'.userId \in {c.requesterId, c.accepterId}
                /\ matchConnections' =
                     (matchConnections \ {c}) \cup {[c EXCEPT !.status = lastOp'.status]}
      /\ lastOp'.op \in {"patch_400", "patch_404"} =>
           /\ matchConnections' = matchConnections
           /\ pending' \subseteq pending
           /\ sent' = Nothing
           /\ \/ lastOp'.status \notin Statuses
              \/ ~\E c \in matchConnections :
                    /\ c.id = lastOp'.id
                    /\ lastOp'.userId \in {c.requesterId, c.accepterId}
      /\ lastOp'.op = "patch_broadcast" =>
           \A s \in Sockets :
             sent'[s] = IF /\ readyState[s] = "OPEN"
                           /\ \E u \in {Row(lastOp'.id).requesterId,
                                        Row(lastOp'.id).accepterId} :
                                s \in SessionsOf(u)
                        THEN <<Event("match_connection_updated")>> ELSE <<>>
      /\ lastOp'.op # "patch_broadcast" =>
           \A s \in Sockets : "match_connection_updated" \notin KindsSent(s)' ]_vars

\* the requester u1 accepted c1: the row is stored as accepted and the event
\* went to the open sessions of u1 and u2 and not to the session of u3
C28_Witness ==
  /\ lastOp.op = "patch_broadcast" /\ lastOp.userId = "u1" /\ lastOp.id = "c1"
  /\ Row("c1").status = "accepted"
  /\ \E s \in SessionsOf("u1") : sent[s] = <<Event("match_connection_updated")>>
  /\ \E s \in SessionsOf("u2") : sent[s] = <<Event("match_connection_updated")>>
  /\ \E s \in SessionsOf("u3") : readyState[s] = "OPEN" /\ sent[s] = <<>>

\* the responses of POST /api/match-connections that refuse the request
ConnectionRefusals ==
  {"post_connection_400", "post_connection_404", "post_connection_500"}

\* C29: every connection created through POST /api/match-connections has
\* requesterId equal to the authenticated caller, requesterId different from
\* accepterId, and accepterId equal to the owner of the match request named
\* by requestId, which exists; a step changes match_connections only by
\* adding one such row; a refused request adds no row, leaves no handler
\* waiting and sends nothing; and match_connection_created is sent only by
\* the broadcast of a created connection, to its requester and accepter.
C29_ConnectionInvariants ==
  [][ /\ \A c \in matchConnections' :
           /\ c.requesterId # c.accepterId
           /\ \E r \in matchRequests' : r.id = c.requestId /\ r.userId = c.accepterId
      /\ matchConnections' # matchConnections =>
           /\ lastOp'.op = "connection_created"
           /\ \E c \in lastOp'.conns :
                /\ lastOp'.conns = {c}
                /\ matchConnections' = matchConnections \cup {c}
                /\ c \notin matchConnections
                /\ c.requesterId = lastOp'.userId
                /\ c.requestId = lastOp'.body.requestId
                /\ c.accepterId = lastOp'.body.accepterId
                /\ c.status = "pending"
      /\ lastOp'.op \in ConnectionRefusals =>
           /\ matchConnections' = matchConnections
           /\ pending' \subseteq pending
           /\ sent' = Nothing
      /\ \A p \in pending' \ pending :
           p.op = "connection_broadcast" =>
             lastOp'.op = "connection_created" /\ p.conns \subseteq matchConnections'
      /\ \A s \in Sockets :
           "match_connection_created" \in KindsSent(s)' =>
              /\ lastOp'.op = "connection_broadcast"
              /\ lastOp' \in pending
              /\ s \in SessionsOf(lastOp'.userId) \cup SessionsOf(lastOp'.body.accepterId) ]_vars

\* u2 connected to the request u1 posted and the event reached the open
\* sessions of both, while u1 is deleting the request
C29_Witness ==
  /\ lastOp.op = "connection_broadcast" /\ lastOp.userId = "u2"
  /\ \E c \in matchConnections :
       c.requestId = RequestId(3) /\ c.requesterId = "u2" /\ c.accepterId = "u1"
  /\ \E s \in SessionsOf("u1") : sent[s] = <<Event("match_connection_created")>>
  /\ \E s \in SessionsOf("u2") : sent[s] = <<Event("match_connection_created")>>
  /\ \E p \in pending : p.op = "request_delete"

\* ------------------------------------------- REST: request ownership
\* the calls of PATCH /api/match-requests/:id/status: <<caller, id, status>>
RequestPatchCalls ==
  {<<"u1", RequestId(3), "connected">>,   \* the owner
   <<"u2", RequestId(1), "declined">>,    \* the owner of a connected request
   <<"u2", RequestId(3), "declined">>,    \* not the owner
   <<"u2", RequestId(3), "archived">>,    \* not the owner, no status
   <<"u1", RequestId(9), "waiting">>}     \* no such request

\* the calls of DELETE /api/match-requests/:id: <<caller, id>>
RequestDeleteCalls ==
  {<<"u1", RequestId(3)>>,    \* the owner
   <<"u2", RequestId(3)>>,    \* not the owner
   <<"u2", RequestId(1)>>,    \* the owner of a request with a connection
   <<"u3", RequestId(9)>>}    \* no such request

\* owners and other users update and delete match requests, two requests
\* at a time
NextRequests ==
  \/ Sessions
  \/ \E n \in Requests, c \in RequestPatchCalls : PatchRequestStatus(n, c[1], c[2], c[3])
  \/ \E p \in pending : RequestUpdate(p)
  \/ \E n \in Requests, c \in RequestDeleteCalls : DeleteMatchRequest(n, c[1], c[2])
  \/ \E p \in pending : RequestDelete(p)
  \/ \E p \in pending : RequestChangeBroadcast(p)

SpecRequests == InitRequests /\ [][NextRequests]_vars

\* the responses of PATCH and DELETE /api/match-requests that refuse the
\* request
RequestRefusals == {"request_400", "request_403", "request_404", "request_500"}

\* the steps of PATCH and DELETE /api/match-requests after storage resolved
RequestMutations == {"request_updated", "request_deleted"}

\* userId owns the request id among the requests a handler read
OwnsIn(requests, userId, id) ==
  \E r \in requests : r.id = id /\ r.userId = userId

\* C30 (as stated): a caller who is not the owner of the match request is
\* answered 403, or 404 if the request does not exist, and the request is
\* left unchanged.
C30_NonOwnerGets403Or404 ==
  [][ (/\ lastOp'.op \in RequestRefusals \cup RequestMutations
       /\ ~OwnsIn(matchRequests, lastOp'.userId, lastOp'.body.requestId)) =>
         /\ matchRequests' = matchRequests
         /\ lastOp'.op = IF \E r \in matchRequests : r.id = lastOp'.body.requestId
                         THEN "request_403" ELSE "request_404" ]_vars

\* C30 (amended): a match request is updated or deleted only by its owner.
\* A step changes match_requests only as the update or the delete of the
\* one row named by the request of its owner; a handler whose caller does
\* not own the request among the rows it read ends in 400 (PATCH with no
\* valid status, decided before the request is looked up), 404 (no such row
\* read) or 403; a refused request (400, 403, 404, 500) changes no row,
\* leaves no handler waiting and sends nothing; a broadcast is scheduled
\* only by the step in which the owner's storage call resolved (an update
\* that matched no row throws, a delete of a request that a connection
\* references is rejected: both are answered 500); and match_request_updated
\* and match_request_deleted are sent only by such a broadcast.
C30_OwnerOnly ==
  [][ /\ matchRequests' # matchRequests =>
           /\ lastOp'.op \in RequestMutations
           /\ \E r \in matchRequests :
                /\ r.id = lastOp'.body.requestId
                /\ r.userId = lastOp'.userId
                /\ matchRequests' =
                     IF lastOp'.op = "request_updated"
                     THEN (matchRequests \ {r}) \cup {[r EXCEPT !.status = lastOp'.status]}
                     ELSE matchRequests \ {r}
      /\ lastOp'.op \in RequestMutations \cup {"request_500"} =>
           /\ OwnsIn(lastOp'.conns, lastOp'.userId, lastOp'.body.requestId)
           /\ \A r \in matchRequests :
                r.id = lastOp'.body.requestId => r.userId = lastOp'.userId
      /\ lastOp'.op = "request_updated" =>
           /\ lastOp'.status \in RequestStatuses
           /\ \E r \in matchRequests' :
                r.id = lastOp'.body.requestId /\ r.status = lastOp'.status
      /\ lastOp'.op = "request_deleted" =>
           ~\E r \in matchRequests' : r.id = lastOp'.body.requestId
      /\ lastOp'.op \in RequestRefusals =>
           /\ matchRequests' = matchRequests
           /\ pending' \subseteq pending
           /\ sent' = Nothing
      /\ lastOp'.op = "request_400" => lastOp'.status \notin RequestStatuses
      /\ lastOp'.op = "request_404" =>
           ~\E r \in lastOp'.conns : r.id = lastOp'.body.requestId
      /\ lastOp'.op = "request_403" =>
           \E r \in lastOp'.conns :
             r.id = lastOp'.body.requestId /\ r.userId # lastOp'.userId
      /\ \A p \in pending' \ pending :
           p.op \in {"request_update_broadcast", "request_delete_broadcast"} =>
             /\ lastOp'.op = IF p.op = "request_update_broadcast"
                             THEN "request_updated" ELSE "request_deleted"
             /\ p.req = lastOp'.req
      /\ \A s \in Sockets :
           /\ "match_request_updated" \in KindsSent(s)' =>
                lastOp'.op = "request_update_broadcast" /\ lastOp' \in pending
           /\ "match_request_deleted" \in KindsSent(s)' =>
                lastOp'.op = "request_delete_broadcast" /\ lastOp' \in pending ]_vars

\* u2 asked to decline the request of u1 and was answered 403: the request
\* still has the status its owner gave it, nothing was sent and no handler
\* is waiting
C30_Witness ==
  /\ lastOp.op = "request_403" /\ lastOp.userId = "u2"
  /\ lastOp.body.requestId = RequestId(3) /\ lastOp.status = "declined"
  /\ [id |-> RequestId(3), userId |-> "u1", status |-> "connected"] \in matchRequests
  /\ \E s \in Sockets : readyState[s] = "OPEN"
  /\ sent = Nothing
  /\ pending = {}

====
